---- MODULE Spec2Model ----
(***************************************************************************)
(* A model of the EDGAR statement extractor (sec_statements.py) and of    *)
(* the viewer's path reconstruction (edgar_viewer.py).                     *)
(*                                                                         *)
(* The program is modelled as several state machines over one set of      *)
(* variables; each specification below runs one of them and leaves the    *)
(* others at rest:                                                         *)
(*   SpecClient   RateLimiter.wait and SecClient._get                      *)
(*   SpecPick     pick_10ks                                                *)
(*   SpecGather   gather_filings                                           *)
(*   SpecSummary  fetch_filing_summary                                     *)
(*   SpecReport   pick_report                                              *)
(*   SpecStatement  one statement: select_and_stitch_tables,               *)
(*                filter_scaffolding and the indent resolver               *)
(*   SpecMerge    merge_multiline_headers                                  *)
(*   SpecInfer    infer_indent_levels                                      *)
(*   SpecWrites   the files and directories main creates for one filing    *)
(*   SpecCik      norm_cik                                                 *)
(*   SpecNumeric  is_numericish on the characters of a cell                *)
(*   SpecPaths    the viewer's _compute_paths                              *)
(*   Spec         main: the ingestion run over the selected filings        *)
(***************************************************************************)
EXTENDS Integers, Sequences, FiniteSets, TLC

VARIABLES
    \* ---- RateLimiter / SecClient._get ----
    clock,          \* time.monotonic(), in seconds
    min_interval,   \* RateLimiter.min_interval
    rl_last,        \* RateLimiter._last
    released,       \* the instant the last wait() returned (None before any)
    c_pc,           \* position inside _get
    attempt,        \* 1-based index of the loop iteration of _get
    backoff,        \* the local backoff of _get
    resp,           \* outcome of session.get in the current iteration of _get
    nreq,           \* requests issued by the current call of _get
    sleeps,         \* the backoff sleeps of the current call, in order
    reqRelease,     \* release instant used by the latest request
    prevReqRelease, \* release instant used by the request before it
    calls,          \* calls of _get started so far
    \* ---- pick_10ks ----
    years_lookback, \* parameter
    limit,          \* parameter
    include_amends, \* parameter
    p_pc,           \* position inside pick_10ks
    p_n,            \* rows of the input consumed by the filter loop
    filings,        \* the local list filings (sorted in place at line 267)
    p_in,           \* the filtered filings in input order, as they were before the sort
    p_out,          \* the returned list
    \* ---- gather_filings ----
    g_pc,           \* position inside gather_filings
    g_files,        \* base.filings.files: for each listed page, whether it has a name
    g_k,            \* index in g_files of the next listed page
    g_page,         \* number of the object last given to add(): 0 is base
    g_cur,          \* the 'recent' object last given to add()
    g_from,         \* len(rows) when that add() was entered
    g_rows,         \* the local list rows
    \* ---- fetch_filing_summary ----
    f_pc,           \* position inside fetch_filing_summary
    f_i,            \* index of the direct name being tried
    f_reqs,         \* the names requested under base_dir, in order
    f_resps,        \* what the client gave for each of them
    f_items,        \* the names of directory.item in index.json
    f_cand,         \* the local cand
    \* ---- pick_report ----
    reports,        \* the reports of FilingSummary.xml, in its order
    r_pc,           \* position: "ready" before the call, "done" after it
    r_kind,         \* the kind asked for
    r_pick,         \* the result: <<>> for None, <<report>> otherwise
    \* ---- main ----
    m_pc,           \* position inside main
    m_filings,      \* the accession numbers of the selected filings, in selector order
    m_i,            \* index in m_filings of the filing of the current iteration
    picked,         \* for each kind, whether pick_report gave a report
    m_k,            \* index in StatementKinds of the kind of the inner iteration
    entry,          \* the manifest entry being built
    manifest,       \* manifest["filings"]
    m_written,      \* manifest.json has been written
    m_failures,     \* failures met so far while handling statements and filings
    \* ---- one statement of main: stitch, filter, resolve ----
    s_pc,           \* position inside lines 796-836
    s_page,         \* the <table> elements of the report, in document order
    s_key,          \* the statement kind
    s_keep,         \* args.keep_abstract
    s_tab,          \* stmt_rows, indent_px, meta
    s_combined,     \* combined_rows, combined_ind_px, combined_meta before line 611
    s_stitched,     \* what select_and_stitch_tables returned
    s_out,          \* indent and indent_mode of the artifact
    \* ---- merge_multiline_headers ----
    h_tab,          \* the table at hand: the input, then each output
    h_n,            \* applications made so far
    h_once,         \* the output of the first application
    \* ---- infer_indent_levels ----
    i_rows,         \* parameter rows
    i_stmt,         \* parameter stmt
    i_n,            \* index (from 0) of the next row of the loop
    i_ctx,          \* in_major, in_adjust, in_changes
    i_levels,       \* levels[0..i_n-1]
    \* ---- the files and directories of one filing ----
    w_pc,           \* position inside main
    w_acc,          \* f.accession, as a path
    w_html,         \* the text of HtmlFileName of the picked report, as a path
    w_fs,           \* the resolved paths that exist
    w_refused,      \* the writes safe_join refused
    \* ---- norm_cik ----
    k_pc,           \* "call" before the call, "returned" or "exit" after it
    k_cik,          \* parameter cik, a sequence of characters
    k_out,          \* the string returned
    \* ---- is_numericish ----
    n_pc,           \* "call" before the call, "returned" after it
    n_s,            \* parameter s, a sequence of characters
    n_out,          \* the boolean returned
    \* ---- _compute_paths ----
    v_levels,       \* parameter levels
    v_n,            \* levels consumed by the loop
    v_stack,        \* the local stack
    v_paths         \* the local paths, each a sequence of characters

clientVars == <<clock, min_interval, rl_last, released, c_pc, attempt, backoff,
                resp, nreq, sleeps, reqRelease, prevReqRelease, calls>>

pickVars == <<years_lookback, limit, include_amends, p_pc, p_n, filings, p_in, p_out>>

gatherVars == <<g_pc, g_files, g_k, g_page, g_cur, g_from, g_rows>>

summaryVars == <<f_pc, f_i, f_reqs, f_resps, f_items, f_cand>>

reportVars == <<reports, r_pc, r_kind, r_pick>>

mainVars == <<m_pc, m_filings, m_i, picked, m_k, entry, manifest, m_written, m_failures>>

statementVars == <<s_pc, s_page, s_key, s_keep, s_tab, s_combined, s_stitched, s_out>>

mergeVars == <<h_tab, h_n, h_once>>

inferVars == <<i_rows, i_stmt, i_n, i_ctx, i_levels>>

writeVars == <<w_pc, w_acc, w_html, w_fs, w_refused>>

cikVars == <<k_pc, k_cik, k_out>>

numericVars == <<n_pc, n_s, n_out>>

pathVars == <<v_levels, v_n, v_stack, v_paths>>

utilVars == <<cikVars, numericVars, pathVars>>

tableVars == <<statementVars, mergeVars, inferVars, writeVars, utilVars>>

vars == <<clientVars, pickVars, gatherVars, summaryVars, reportVars, mainVars, tableVars>>

\* What each machine leaves alone.
notClient == <<pickVars, gatherVars, summaryVars, reportVars, mainVars, tableVars>>
notPick == <<clientVars, gatherVars, summaryVars, reportVars, mainVars, tableVars>>
notGather == <<clientVars, pickVars, summaryVars, reportVars, mainVars, tableVars>>
notSummary == <<clientVars, pickVars, gatherVars, reportVars, mainVars, tableVars>>
notReport == <<clientVars, pickVars, gatherVars, summaryVars, mainVars, tableVars>>
notMain == <<clientVars, pickVars, gatherVars, summaryVars, reportVars, tableVars>>
pipelineVars == <<clientVars, pickVars, gatherVars, summaryVars, reportVars, mainVars>>
notStatement == <<pipelineVars, mergeVars, inferVars, writeVars, utilVars>>
notMerge == <<pipelineVars, statementVars, inferVars, writeVars, utilVars>>
notInfer == <<pipelineVars, statementVars, mergeVars, writeVars, utilVars>>
notWrites == <<pipelineVars, statementVars, mergeVars, inferVars, utilVars>>
machineVars == <<pipelineVars, statementVars, mergeVars, inferVars, writeVars>>
notCik == <<machineVars, numericVars, pathVars>>
notNumeric == <<machineVars, cikVars, pathVars>>
notPaths == <<machineVars, cikVars, numericVars>>

None == -1

Min(a, b) == IF a < b THEN a ELSE b
Max(a, b) == IF a > b THEN a ELSE b

\* F of the value of e: e is evaluated once, whatever the uses F makes of it.
With(e, F(_)) == CHOOSE r \in {F(v) : v \in {e}} : TRUE

(***************************************************************************)
(* Bounds of the model.                                                    *)
(***************************************************************************)
MaxMinInterval == 2     \* min_interval ranges over 0..MaxMinInterval seconds
MaxLatency == 1         \* a request takes 0..MaxLatency seconds
MaxOversleep == 1       \* time.sleep may oversleep by 0..MaxOversleep seconds
MaxCalls == 2           \* calls of _get made by one client
MaxClock == 70          \* the clock is not advanced past MaxClock
MaxRows == 3            \* rows of the submission index given to pick_10ks
MaxYears == 1           \* years_lookback ranges over 0..MaxYears
MaxLimit == 2           \* limit ranges over 0..MaxLimit
MaxArr == 2             \* length of a parallel array of a submissions page
MaxPages == 2           \* additional pages listed in base.filings.files
MaxItems == 2           \* entries of the directory listing index.json
MaxReports == 3         \* reports of one FilingSummary.xml
MaxFilings == 2         \* filings selected for one run of main
MaxTables == 2          \* <table> elements of one report page
MaxHeaderRows == 11     \* leading header rows of a table given to the header merger
MaxTail == 2            \* rows that follow them
MaxInferRows == 4       \* rows of a table given to the indent inferencer
MaxCikLen == 3          \* leading characters of any kind of a --cik argument
MaxCikDigits == 11      \* digits that follow them
MaxNumLen == 3          \* characters of a cell given to is_numericish
MaxPathRows == 4        \* levels given to _compute_paths

(***************************************************************************)
(* RateLimiter and SecClient._get                                          *)
(***************************************************************************)
InitialBackoff == 1
BackoffCap == 16
MaxAttempts == 7

TransportFailure == 0   \* session.get raised instead of returning a response
RetryStatuses == {429, 500, 502, 503, 504}
Statuses == {200, 204, 403, 404} \cup RetryStatuses

NoResp == [status |-> None, big |-> FALSE]
Responses ==
    {[status |-> s, big |-> FALSE] : s \in Statuses \cup {TransportFailure}}
        \cup {[status |-> 200, big |-> TRUE]}

\* RateLimiter.wait, line 73: the stamp is taken after the sleep.
StampBeforeSleep(now, woke) == now
Stamp(now, woke) == woke

\* _get, lines 105 and 112.
NextBackoffNoCap(b) == b * 2
NextBackoff(b) == Min(b * 2, BackoffCap)

\* Where one attempt of _get goes after session.get, lines 96-112:
\* "returned", "sleep_retry" (line 104) or "sleep_exc" (line 111).
AfterGet(r) ==
    IF r.status = TransportFailure THEN "sleep_exc"
    ELSE IF r.status = 200 THEN (IF r.big THEN "sleep_exc" ELSE "returned")
    ELSE IF r.status = 404 THEN "returned"
    ELSE IF r.status \in RetryStatuses THEN "sleep_retry"
    ELSE IF r.status >= 400 THEN "sleep_exc"     \* raise_for_status raises
    ELSE "returned"

ClientInit ==
    /\ clock \in 0..MaxMinInterval
    /\ min_interval \in 0..MaxMinInterval
    /\ rl_last = 0
    /\ released = None
    /\ c_pc = "idle"
    /\ attempt = 0
    /\ backoff = InitialBackoff
    /\ resp = NoResp
    /\ nreq = 0
    /\ sleeps = <<>>
    /\ reqRelease = None
    /\ prevReqRelease = None
    /\ calls = 0

ClientIdle ==
    /\ clock = 0
    /\ min_interval = 0
    /\ rl_last = 0
    /\ released = None
    /\ c_pc = "off"
    /\ attempt = 0
    /\ backoff = InitialBackoff
    /\ resp = NoResp
    /\ nreq = 0
    /\ sleeps = <<>>
    /\ reqRelease = None
    /\ prevReqRelease = None
    /\ calls = 0

\* _get is entered (lines 90-93): a new call, for any URL.
GetCall ==
    /\ c_pc \in {"idle", "returned", "raised"}
    /\ calls < MaxCalls
    /\ calls' = calls + 1
    /\ backoff' = InitialBackoff
    /\ attempt' = 1
    /\ nreq' = 0
    /\ sleeps' = <<>>
    /\ resp' = NoResp
    /\ c_pc' = "wait"
    /\ UNCHANGED <<clock, min_interval, rl_last, released, reqRelease, prevReqRelease>>
    /\ UNCHANGED notClient

\* RateLimiter.wait (lines 68-73), called at line 95.
RateLimiterWait ==
    /\ c_pc = "wait"
    /\ \E over \in 0..MaxOversleep :
        LET now == clock
            dt_s == now - rl_last
            woke == IF dt_s < min_interval
                    THEN now + (min_interval - dt_s) + over
                    ELSE now
        IN  /\ dt_s >= min_interval => over = 0
            /\ woke <= MaxClock
            /\ clock' = woke
            /\ rl_last' = Stamp(now, woke)
            /\ released' = woke
    /\ c_pc' = "get"
    /\ UNCHANGED <<min_interval, attempt, backoff, resp, nreq, sleeps,
                   reqRelease, prevReqRelease, calls>>
    /\ UNCHANGED notClient

\* session.get and the dispatch on its outcome (lines 96-110).
SessionGet ==
    /\ c_pc = "get"
    /\ \E r \in Responses, lat \in 0..MaxLatency :
        /\ clock + lat <= MaxClock
        /\ clock' = clock + lat
        /\ resp' = r
        /\ c_pc' = AfterGet(r)
    /\ nreq' = nreq + 1
    /\ prevReqRelease' = reqRelease
    /\ reqRelease' = released
    /\ UNCHANGED <<min_interval, rl_last, released, attempt, backoff, sleeps, calls>>
    /\ UNCHANGED notClient

\* time.sleep(backoff), the doubling, and the end of the iteration
\* (lines 104-106 and 111-113).
BackoffSleep ==
    /\ c_pc \in {"sleep_retry", "sleep_exc"}
    /\ \E over \in 0..MaxOversleep :
        /\ clock + backoff + over <= MaxClock
        /\ clock' = clock + backoff + over
    /\ sleeps' = Append(sleeps, backoff)
    /\ backoff' = NextBackoff(backoff)
    /\ IF attempt < MaxAttempts
       THEN /\ attempt' = attempt + 1
            /\ resp' = NoResp
            /\ c_pc' = "wait"
       ELSE /\ attempt' = attempt
            /\ resp' = resp
            /\ c_pc' = "raised"
    /\ UNCHANGED <<min_interval, rl_last, released, nreq,
                   reqRelease, prevReqRelease, calls>>
    /\ UNCHANGED notClient

ClientNext ==
    \/ GetCall
    \/ RateLimiterWait
    \/ SessionGet
    \/ BackoffSleep


(***************************************************************************)
(* pick_10ks                                                               *)
(*                                                                         *)
(* Dates are day numbers counted from today (today = 0, the past is        *)
(* negative).  A date string of the index is [iso, day]: iso says whether  *)
(* date.fromisoformat accepts it.  An optional date is <<>> or <<day>>.    *)
(***************************************************************************)
\* str.strip() on the strings the model draws from.
Strip(s) ==
    CASE s = " 10-K " -> "10-K"
      [] s = "A " -> "A"
      [] s = " " -> ""
      [] OTHER -> s

\* parse_ymd, lines 145-151.
parse_ymd(s) == IF s.iso THEN <<s.day>> ELSE <<>>

\* int(years_lookback * 365.25), line 251.
LookbackDays(years) == (years * 36525) \div 100

\* cutoff, line 251.
Cutoff(years) == 0 - LookbackDays(years)

\* ok_forms, line 252.
OkFormsAlways(amends) == {"10-K", "10-K/A"}
OkForms(amends) == {"10-K"} \cup (IF amends THEN {"10-K/A"} ELSE {})

\* The rows the filter loop may be given: forms, filing dates around the
\* cutoff (and an unparsable one), accession numbers.
Forms == {"10-K", " 10-K ", "10-K/A", "10-Q"}
DateStrings(years) ==
    {[iso |-> TRUE, day |-> Cutoff(years) + d] : d \in {-1, 0, 1}}
        \cup {[iso |-> FALSE, day |-> 0]}
Accessions == {"", " ", "A", "A ", "B"}
RawRows(years) ==
    [form : Forms, filingDate : DateStrings(years), accessionNumber : Accessions]

\* The date test of line 260: TRUE when the row is skipped.
TooOld(fd, cutoff) == fd = <<>> \/ fd[1] < cutoff

\* One iteration of the filter loop, lines 255-265: the list after row r, the
\* pos-th row of the input.  pos is kept with the filing to tell the input
\* order after the sort; it is not a field of Filing.
FilterRow(fs, r, pos, years, amends) ==
    LET form == Strip(r.form)
        fd == parse_ymd(r.filingDate)
        acc == Strip(r.accessionNumber)
    IN  IF form \notin OkForms(amends) THEN fs
        ELSE IF TooOld(fd, Cutoff(years)) THEN fs
        ELSE IF acc = "" THEN fs
        ELSE Append(fs, [form |-> form, filing_date |-> fd[1],
                         accession |-> acc, pos |-> pos])

\* Whether a stays before x when x comes later in the list being sorted:
\* list.sort(key=filing_date, reverse=True) is stable, line 267.
StaysBeforeUnstable(a, x) == a.filing_date > x.filing_date
StaysBefore(a, x) == a.filing_date >= x.filing_date

RECURSIVE InsertSorted(_, _)
InsertSorted(s, x) ==
    IF s = <<>> THEN <<x>>
    ELSE IF StaysBefore(Head(s), x) THEN <<Head(s)>> \o InsertSorted(Tail(s), x)
    ELSE <<x>> \o s

RECURSIVE SortDesc(_)
SortDesc(s) ==
    IF s = <<>> THEN <<>>
    ELSE InsertSorted(SortDesc(SubSeq(s, 1, Len(s) - 1)), s[Len(s)])

\* The dedupe loop, lines 269-278: fs is what is left to visit.
RECURSIVE Dedupe(_, _, _, _)
Dedupe(fs, seen, out, lim) ==
    IF fs = <<>> THEN out
    ELSE IF Head(fs).accession \in seen THEN Dedupe(Tail(fs), seen, out, lim)
    ELSE LET out2 == Append(out, Head(fs))
         IN  IF Len(out2) >= lim THEN out2
             ELSE Dedupe(Tail(fs), seen \cup {Head(fs).accession}, out2, lim)

PickInit ==
    /\ years_lookback \in 0..MaxYears
    /\ limit \in 0..MaxLimit
    /\ include_amends \in BOOLEAN
    /\ p_pc = "filter"
    /\ p_n = 0
    /\ filings = <<>>
    /\ p_in = <<>>
    /\ p_out = <<>>

PickIdle ==
    /\ years_lookback = 0
    /\ limit = 0
    /\ include_amends = FALSE
    /\ p_pc = "off"
    /\ p_n = 0
    /\ filings = <<>>
    /\ p_in = <<>>
    /\ p_out = <<>>

\* One row of the input goes through the filter loop.
PickRow ==
    /\ p_pc = "filter"
    /\ p_n < MaxRows
    /\ \E r \in RawRows(years_lookback) :
        filings' = FilterRow(filings, r, p_n + 1, years_lookback, include_amends)
    /\ p_n' = p_n + 1
    /\ UNCHANGED <<years_lookback, limit, include_amends, p_pc, p_in, p_out>>
    /\ UNCHANGED notPick

\* The input is exhausted: the sort, the dedupe loop and the return.
PickFinish ==
    /\ p_pc = "filter"
    /\ p_in' = filings
    /\ filings' = SortDesc(filings)
    /\ p_out' = Dedupe(filings', {}, <<>>, limit)
    /\ p_pc' = "done"
    /\ UNCHANGED <<years_lookback, limit, include_amends, p_n>>
    /\ UNCHANGED notPick

PickNext ==
    \/ PickRow
    \/ PickFinish


(***************************************************************************)
(* gather_filings                                                          *)
(*                                                                         *)
(* A key of the 'recent' object is [present, items]: present is FALSE when *)
(* the key is missing (or null), and .get(key) or [] is then the empty     *)
(* list.  The i-th item of the form, filingDate and accessionNumber arrays *)
(* is the number i, so that a row shows which items were zipped; an item   *)
(* of reportDate is TRUE when it is a non-empty string.                    *)
(***************************************************************************)
RECURSIVE SeqsUpTo(_, _)
SeqsUpTo(S, n) ==
    IF n = 0 THEN {<<>>}
    ELSE LET shorter == SeqsUpTo(S, n - 1)
         IN  shorter \cup {Append(q, x) : q \in shorter, x \in S}

Iota(n) == [i \in 1..n |-> i]

AbsentKey == [present |-> FALSE, items |-> <<>>]
IndexArrays == {AbsentKey} \cup {[present |-> TRUE, items |-> Iota(n)] : n \in 0..MaxArr}
ReportDateArrays ==
    {AbsentKey} \cup {[present |-> TRUE, items |-> q] : q \in SeqsUpTo(BOOLEAN, MaxArr)}
RecentObjects ==
    [form : IndexArrays, filingDate : IndexArrays,
     reportDate : ReportDateArrays, accessionNumber : IndexArrays]
NoRecent ==
    [form |-> AbsentKey, filingDate |-> AbsentKey,
     reportDate |-> AbsentKey, accessionNumber |-> AbsentKey]

\* recent.get(key) or [], lines 223-226.
OrEmpty(a) == IF a.present THEN a.items ELSE <<>>

\* add(), lines 221-237: the rows one 'recent' object appends, tagged with
\* the number of the page they come from.
AddRows(recent, page) ==
    LET forms == OrEmpty(recent.form)
        fdates == OrEmpty(recent.filingDate)
        rdates == OrEmpty(recent.reportDate)
        accs == OrEmpty(recent.accessionNumber)
        n == Min(Min(Len(forms), Len(fdates)), Min(Len(rdates), Len(accs)))
    IN  [i \in 1..n |->
            [page |-> page,
             form |-> forms[i],
             filingDate |-> fdates[i],
             reportDate |-> IF rdates[i] THEN <<i>> ELSE <<>>,
             accessionNumber |-> accs[i]]]

GatherInit ==
    /\ g_pc = "base"
    /\ g_files = <<>>
    /\ g_k = 1
    /\ g_page = 0
    /\ g_cur = NoRecent
    /\ g_from = 0
    /\ g_rows = <<>>

GatherIdle ==
    /\ g_pc = "off"
    /\ g_files = <<>>
    /\ g_k = 1
    /\ g_page = 0
    /\ g_cur = NoRecent
    /\ g_from = 0
    /\ g_rows = <<>>

\* client.get_json raises (line 218 or 244): gather_filings raises.
GatherFetchFails ==
    /\ \/ g_pc = "base"
       \/ (g_pc = "pages" /\ g_k <= Len(g_files) /\ g_files[g_k])
    /\ g_pc' = "raised"
    /\ UNCHANGED <<g_files, g_k, g_page, g_cur, g_from, g_rows>>
    /\ UNCHANGED notGather

\* Lines 218-239: the base object is fetched and given to add().
GatherBase ==
    /\ g_pc = "base"
    /\ \E recent \in RecentObjects, files \in SeqsUpTo(BOOLEAN, MaxPages) :
        /\ g_cur' = recent
        /\ g_files' = files
        /\ g_rows' = g_rows \o AddRows(recent, 0)
    /\ g_from' = Len(g_rows)
    /\ g_page' = 0
    /\ g_pc' = "pages"
    /\ UNCHANGED g_k
    /\ UNCHANGED notGather

\* Lines 241-243: a listed page without a name is skipped.
GatherSkipPage ==
    /\ g_pc = "pages"
    /\ g_k <= Len(g_files)
    /\ ~g_files[g_k]
    /\ g_k' = g_k + 1
    /\ UNCHANGED <<g_pc, g_files, g_page, g_cur, g_from, g_rows>>
    /\ UNCHANGED notGather

\* Lines 244-245: a listed page is fetched and given to add().
GatherPage ==
    /\ g_pc = "pages"
    /\ g_k <= Len(g_files)
    /\ g_files[g_k]
    /\ \E recent \in RecentObjects :
        /\ g_cur' = recent
        /\ g_rows' = g_rows \o AddRows(recent, g_k)
    /\ g_from' = Len(g_rows)
    /\ g_page' = g_k
    /\ g_k' = g_k + 1
    /\ UNCHANGED <<g_pc, g_files>>
    /\ UNCHANGED notGather

\* Line 247.
GatherReturn ==
    /\ g_pc = "pages"
    /\ g_k > Len(g_files)
    /\ g_pc' = "done"
    /\ UNCHANGED <<g_files, g_k, g_page, g_cur, g_from, g_rows>>
    /\ UNCHANGED notGather

GatherNext ==
    \/ GatherFetchFails
    \/ GatherBase
    \/ GatherSkipPage
    \/ GatherPage
    \/ GatherReturn

(***************************************************************************)
(* fetch_filing_summary                                                    *)
(*                                                                         *)
(* What the client gives for a URL is [code, tag, json]: code is the       *)
(* status _get returned (200, 404 or another status below 400), or Raised  *)
(* when _get raised; tag says whether the text contains '<FilingSummary';  *)
(* json says whether the body decodes as a JSON object.                    *)
(***************************************************************************)
Raised == 0
ReturnedCodes == {200, 204, 404}
Fetches == [code : ReturnedCodes \cup {Raised}, tag : BOOLEAN, json : BOOLEAN]

DirectNames == <<"FilingSummary.xml", "filingsummary.xml">>
ItemNames == {"FilingSummary.xml", "FILINGSUMMARY.XML", "Filingsummary.XML", "R2.htm", ""}

\* str.lower() on the names the model draws from.
Lower(nm) ==
    CASE nm = "FilingSummary.xml" -> "filingsummary.xml"
      [] nm = "FILINGSUMMARY.XML" -> "filingsummary.xml"
      [] nm = "Filingsummary.XML" -> "filingsummary.xml"
      [] nm = "R2.htm" -> "r2.htm"
      [] nm = "R2" -> "r2"
      [] nm = "R9" -> "r9"
      [] nm = ".HTML" -> ".html"
      [] nm = "Balance" -> "balance"
      [] nm = "Sheet" -> "sheet"
      [] nm = "Parenthetical" -> "parenthetical"
      [] nm = "Consolidated" -> "consolidated"
      [] nm = "Statement" -> "statement"
      [] nm = "Operations" -> "operations"
      [] nm = "STATEMENT" -> "statement"
      [] nm = "S" -> "s"
      [] nm = "OF" -> "of"
      [] nm = "CASH" -> "cash"
      [] nm = "FLOW" -> "flow"
      [] nm = "Financial" -> "financial"
      [] nm = "Position" -> "position"
      [] nm = "Comprehensive" -> "comprehensive"
      [] nm = "Income" -> "income"
      [] nm = "Cash" -> "cash"
      [] nm = "Flow" -> "flow"
      [] nm = "Cover" -> "cover"
      [] nm = "Notes" -> "notes"
      [] nm = "Operating" -> "operating"
      [] nm = "Adjustments" -> "adjustments"
      [] nm = "Changes" -> "changes"
      [] nm = "[Abstract]" -> "[abstract]"
      [] nm = "Abstract" -> "abstract"
      [] nm = "Equity" -> "equity"
      [] nm = "Dec. 31, 2023" -> "dec. 31, 2023"
      [] nm = "DEC. 31, 2023" -> "dec. 31, 2023"
      [] nm = "Dec. 31, 2022" -> "dec. 31, 2022"
      [] nm = "Balance Sheet - USD ($)" -> "balance sheet - usd ($)"
      [] OTHER -> nm

\* Line 285: a direct response is taken.
DirectAcceptedAny200(r) == r.code = 200
DirectAccepted(r) == r.code = 200 /\ r.tag

\* Lines 293-298: the first item whose lowercased name is filingsummary.xml,
\* or "" (cand stays None).
RECURSIVE FindCand(_)
FindCand(items) ==
    IF items = <<>> THEN ""
    ELSE IF Lower(Head(items)) = "filingsummary.xml" THEN Head(items)
    ELSE FindCand(Tail(items))

SummaryInit ==
    /\ f_pc = "direct"
    /\ f_i = 1
    /\ f_reqs = <<>>
    /\ f_resps = <<>>
    /\ f_items = <<>>
    /\ f_cand = ""

SummaryIdle ==
    /\ f_pc = "off"
    /\ f_i = 1
    /\ f_reqs = <<>>
    /\ f_resps = <<>>
    /\ f_items = <<>>
    /\ f_cand = ""

\* Lines 282-286: one iteration of the loop over the two direct names.
SummaryDirect ==
    /\ f_pc = "direct"
    /\ \E r \in Fetches :
        /\ r.json = FALSE
        /\ f_reqs' = Append(f_reqs, DirectNames[f_i])
        /\ f_resps' = Append(f_resps, r)
        /\ IF r.code = Raised
           THEN f_pc' = "raised" /\ f_i' = f_i
           ELSE IF DirectAccepted(r)
           THEN f_pc' = "returned" /\ f_i' = f_i
           ELSE IF f_i < Len(DirectNames)
           THEN f_pc' = "direct" /\ f_i' = f_i + 1
           ELSE f_pc' = "index" /\ f_i' = f_i
    /\ UNCHANGED <<f_items, f_cand>>
    /\ UNCHANGED notSummary

\* Lines 288-300: index.json is fetched, decoded and scanned.
SummaryIndex ==
    /\ f_pc = "index"
    /\ \E r \in Fetches, items \in SeqsUpTo(ItemNames, MaxItems) :
        /\ r.tag = FALSE
        /\ (r.code # 200 \/ ~r.json) => items = <<>>
        /\ f_reqs' = Append(f_reqs, "index.json")
        /\ f_resps' = Append(f_resps, r)
        /\ f_items' = items
        /\ f_cand' = FindCand(items)
        /\ IF r.code = Raised THEN f_pc' = "raised"
           ELSE IF r.code # 200 THEN f_pc' = "not_found"
           ELSE IF ~r.json THEN f_pc' = "raised"
           ELSE IF FindCand(items) = "" THEN f_pc' = "not_found"
           ELSE f_pc' = "cand"
    /\ UNCHANGED f_i
    /\ UNCHANGED notSummary

\* Lines 301-305: the listing's entry is fetched.
SummaryCand ==
    /\ f_pc = "cand"
    /\ \E r \in Fetches :
        /\ r.json = FALSE
        /\ f_reqs' = Append(f_reqs, f_cand)
        /\ f_resps' = Append(f_resps, r)
        /\ IF r.code = Raised THEN f_pc' = "raised"
           ELSE IF r.code # 200 THEN f_pc' = "not_found"
           ELSE f_pc' = "returned"
    /\ UNCHANGED <<f_i, f_items, f_cand>>
    /\ UNCHANGED notSummary

SummaryNext ==
    \/ SummaryDirect
    \/ SummaryIndex
    \/ SummaryCand

(***************************************************************************)
(* pick_report                                                             *)
(*                                                                         *)
(* A text is a sequence of fragments (words, plural endings, blanks,       *)
(* punctuation), so that 'cash flow' is found inside 'cash flows' as       *)
(* Python's substring test finds it; `in` is the search for a contiguous   *)
(* run of fragments.                                                       *)
(***************************************************************************)
LowerText(t) == [i \in 1..Len(t) |-> Lower(t[i])]

\* m in t, lines 348 and 351.
Contains(t, m) ==
    \E i \in 0..(Len(t) - Len(m)) : SubSeq(t, i + 1, i + Len(m)) = m

\* The must and avoid lists, lines 324-342.
must(kind) ==
    CASE kind = "BS" ->
            << <<"balance", " ", "sheet">>,
               <<"financial", " ", "position">>,
               <<"statement", " ", "of", " ", "financial", " ", "position">> >>
      [] kind = "IS" ->
            << <<"statement", " ", "of", " ", "operations">>,
               <<"statement", "s", " ", "of", " ", "operations">>,
               <<"income", " ", "statement">>,
               <<"statement", "s", " ", "of", " ", "income">>,
               <<"statement", " ", "of", " ", "earnings">>,
               <<"statement", "s", " ", "of", " ", "earnings">>,
               <<"results", " ", "of", " ", "operations">> >>
      [] kind = "CFS" ->
            << <<"cash", " ", "flow", "s">>, <<"cash", " ", "flow">> >>
      [] OTHER -> <<>>

avoid(kind) ==
    CASE kind = "BS" ->
            << <<"parenthetical">>, <<"changes", " ", "in">>, <<"equity">>,
               <<"cash", " ", "flow", "s">>, <<"operations">>, <<"income">>,
               <<"earnings">> >>
      [] kind = "IS" ->
            << <<"comprehensive">>, <<"parenthetical">>, <<"balance", " ", "sheet">>,
               <<"cash", " ", "flow", "s">>, <<"equity">> >>
      [] kind = "CFS" ->
            << <<"parenthetical">>, <<"balance", " ", "sheet">>, <<"operations">>,
               <<"income">>, <<"earnings">>, <<"equity">> >>
      [] OTHER -> <<>>

\* The two loops of score(), lines 347-352: w for each entry of list found in t.
RECURSIVE Hits(_, _, _)
Hits(t, list, w) ==
    IF list = <<>> THEN 0
    ELSE (IF Contains(t, Head(list)) THEN w ELSE 0) + Hits(t, Tail(list), w)

\* score(), lines 344-357.
score(r, kind) ==
    LET t == LowerText(r.short_name \o <<" ">> \o r.long_name)
        file == LowerText(r.html_file)
    IN  Hits(t, must(kind), 10) + Hits(t, avoid(kind), 0 - 8)
        + (IF file # <<>> /\ file[Len(file)] \in {".htm", ".html"} THEN 1 ELSE 0)
        + (IF Lower(r.report_type) \in {"sheet", "statement"} THEN 1 ELSE 0)

\* The names, files and types FilingSummary.xml gives its reports.
ReportNames ==
    { [short |-> <<"Balance", " ", "Sheet">>, long |-> <<>>],
      [short |-> <<"Balance", " ", "Sheet", " ", "(", "Parenthetical", ")">>, long |-> <<>>],
      [short |-> <<"Consolidated", " ", "Statement", "s", " ", "of", " ", "Operations">>,
       long |-> <<>>],
      [short |-> <<"Cover">>,
       long |-> <<"STATEMENT", "S", " ", "OF", " ", "CASH", " ", "FLOW", "S">>],
      [short |-> <<"Statement", " ", "of", " ", "Financial", " ", "Position">>, long |-> <<>>],
      [short |-> <<"Statement", "s", " ", "of", " ", "Comprehensive", " ", "Income">>,
       long |-> <<>>],
      [short |-> <<"Cash">>, long |-> <<"Flow", " ", "Statement">>],
      [short |-> <<"Cover">>, long |-> <<>>] }
ReportFiles == {<<"R2", ".htm">>, <<"R9", ".xml">>, <<"R2", ".HTML">>}
ReportTypes == {"Sheet", "Notes"}
PlainName == [short |-> <<"Balance", " ", "Sheet">>, long |-> <<>>]
ReportChoices ==
    { [short_name |-> n.short, long_name |-> n.long, html_file |-> f, report_type |-> ty] :
        n \in ReportNames, f \in ReportFiles, ty \in ReportTypes }
SampleReports ==
    { r \in ReportChoices :
        \/ (r.html_file = <<"R2", ".htm">> /\ r.report_type = "Sheet")
        \/ (r.html_file = <<"R9", ".xml">> /\ r.report_type = "Notes")
        \/ (r.short_name = PlainName.short /\ r.long_name = PlainName.long) }

Kinds == {"BS", "IS", "CFS", "EQ"}

\* score() of every report the model draws, per kind.
ScoreTable == [r \in SampleReports |-> [k \in Kinds |-> score(r, k)]]

\* The test of line 363.
BetterOrEqual(sc, best_s) == sc >= best_s
Better(sc, best_s) == sc > best_s

\* The loop of lines 359-365: <<best, best_s>> after the reports rs, best
\* being <<>> for None.
RECURSIVE BestOf(_, _, _)
BestOf(rs, kind, acc) ==
    IF rs = <<>> THEN acc
    ELSE LET sc == ScoreTable[Head(rs)][kind]
         IN  BestOf(Tail(rs), kind,
                    IF Better(sc, acc[2]) THEN << <<Head(rs)>>, sc >> ELSE acc)

\* pick_report, lines 321-366.
pick_report(rs, kind) ==
    IF kind \notin {"BS", "IS", "CFS"} THEN <<>>
    ELSE LET b == BestOf(rs, kind, << <<>>, 0 - 1000000000 >>)
         IN  IF b[1] # <<>> /\ b[2] > 0 THEN b[1] ELSE <<>>

ReportInit ==
    /\ reports \in SeqsUpTo(SampleReports, MaxReports)
    /\ r_pc = "ready"
    /\ r_kind = ""
    /\ r_pick = <<>>

ReportIdle ==
    /\ reports = <<>>
    /\ r_pc = "off"
    /\ r_kind = ""
    /\ r_pick = <<>>

PickReport ==
    /\ r_pc = "ready"
    /\ \E kind \in Kinds :
        /\ r_kind' = kind
        /\ r_pick' = pick_report(reports, kind)
    /\ r_pc' = "done"
    /\ UNCHANGED reports
    /\ UNCHANGED notReport

ReportNext == PickReport

(***************************************************************************)
(* main: the loop over the selected filings, lines 750-850                 *)
(*                                                                         *)
(* A call that can fail is a choice over its outcomes: the client's fetch  *)
(* returns 200, returns another status, or raises (after its retries, or   *)
(* on an oversized response); fetch_filing_summary returns or raises;      *)
(* parse_reports returns or raises ParseError; write_text writes or        *)
(* refuses; select_and_stitch_tables gives rows or none.                   *)
(***************************************************************************)
StatementKinds == <<"BS", "IS", "CFS">>
MainAccessions == {"A", "B", "C"}

NoEntry == [accessionNumber |-> "", errors |-> <<>>, outputs |-> {}]

\* The selected filings: pick_10ks returns distinct accession numbers, and
\* main exits at line 737 when it returns none.
SelectedFilings ==
    {q \in SeqsUpTo(MainAccessions, MaxFilings) :
        /\ q # <<>>
        /\ \A i, j \in 1..Len(q) : q[i] = q[j] => i = j}

MainInit ==
    /\ m_pc = "filing"
    /\ m_filings \in SelectedFilings
    /\ m_i = 1
    /\ picked = [k \in {"BS", "IS", "CFS"} |-> FALSE]
    /\ m_k = 1
    /\ entry = NoEntry
    /\ manifest = <<>>
    /\ m_written = FALSE
    /\ m_failures = 0

MainIdle ==
    /\ m_pc = "off"
    /\ m_filings = <<>>
    /\ m_i = 1
    /\ picked = [k \in {"BS", "IS", "CFS"} |-> FALSE]
    /\ m_k = 1
    /\ entry = NoEntry
    /\ manifest = <<>>
    /\ m_written = FALSE
    /\ m_failures = 0

\* Lines 750-765: the next filing's directory and entry.
MainFiling ==
    /\ m_pc = "filing"
    /\ m_i <= Len(m_filings)
    /\ entry' = [accessionNumber |-> m_filings[m_i], errors |-> <<>>, outputs |-> {}]
    /\ m_pc' = "summary"
    /\ UNCHANGED <<m_filings, m_i, picked, m_k, manifest, m_written, m_failures>>
    /\ UNCHANGED notMain

\* Lines 767-770: FilingSummary.xml is fetched and written.
MainSummaryOk ==
    /\ m_pc = "summary"
    /\ m_pc' = "parse"
    /\ UNCHANGED <<m_filings, m_i, picked, m_k, entry, manifest, m_written, m_failures>>
    /\ UNCHANGED notMain

\* Lines 771-774: fetch_filing_summary raised or write_text refused; the
\* handler records it and goes on with the next filing.
MainSummaryFails ==
    /\ m_pc = "summary"
    /\ \E what \in {"fetch", "write"} :
        manifest' = Append(manifest,
            [entry EXCEPT !.errors = Append(@, <<"FilingSummary", what>>)])
    /\ m_failures' = m_failures + 1
    /\ m_i' = m_i + 1
    /\ m_pc' = "filing"
    /\ UNCHANGED <<m_filings, picked, m_k, entry, m_written>>
    /\ UNCHANGED notMain

\* Lines 776-781: parse_reports and the three picks.
MainParse ==
    /\ m_pc = "parse"
    /\ picked' \in [{"BS", "IS", "CFS"} -> BOOLEAN]
    /\ m_k' = 1
    /\ m_pc' = "statement"
    /\ UNCHANGED <<m_filings, m_i, entry, manifest, m_written, m_failures>>
    /\ UNCHANGED notMain

\* Line 776: ET.fromstring raises ParseError on unparsable XML; the call is
\* outside the try block of lines 767-774.
MainParseRaises ==
    /\ m_pc = "parse"
    /\ m_failures' = m_failures + 1
    /\ m_pc' = "crashed"
    /\ UNCHANGED <<m_filings, m_i, picked, m_k, entry, manifest, m_written>>
    /\ UNCHANGED notMain

\* The end of one inner iteration: the next kind, or line 847 after the last.
MainAdvance(e, failed) ==
    /\ m_failures' = m_failures + (IF failed THEN 1 ELSE 0)
    /\ IF m_k < Len(StatementKinds)
       THEN /\ m_k' = m_k + 1
            /\ entry' = e
            /\ UNCHANGED <<manifest, m_i>>
            /\ m_pc' = "statement"
       ELSE /\ m_k' = m_k
            /\ entry' = e
            /\ manifest' = Append(manifest, e)
            /\ m_i' = m_i + 1
            /\ m_pc' = "filing"
    /\ UNCHANGED <<m_filings, picked, m_written>>
    /\ UNCHANGED notMain

\* Lines 784-786, 790-792, 798-800: a failure that is recorded in the entry.
MainStatementError ==
    /\ m_pc = "statement"
    /\ \E what \in {"report not found", "HTTP", "could not parse"} :
        /\ what = "report not found" <=> ~picked[StatementKinds[m_k]]
        /\ MainAdvance([entry EXCEPT !.errors =
                            Append(@, <<StatementKinds[m_k], what>>)], TRUE)

\* Lines 789 and 794: client.get_text raises, or write_text refuses the
\* report's file; neither call is inside a try block.
MainStatementRaises ==
    /\ m_pc = "statement"
    /\ picked[StatementKinds[m_k]]
    /\ m_failures' = m_failures + 1
    /\ m_pc' = "crashed"
    /\ UNCHANGED <<m_filings, m_i, picked, m_k, entry, manifest, m_written>>
    /\ UNCHANGED notMain

\* Lines 788-845: the statement is fetched, extracted and written.
MainStatementOk ==
    /\ m_pc = "statement"
    /\ picked[StatementKinds[m_k]]
    /\ MainAdvance([entry EXCEPT !.outputs = @ \cup {StatementKinds[m_k]}], FALSE)

\* Line 849.
MainWriteManifest ==
    /\ m_pc = "filing"
    /\ m_i > Len(m_filings)
    /\ m_written' = TRUE
    /\ m_pc' = "done"
    /\ UNCHANGED <<m_filings, m_i, picked, m_k, entry, manifest, m_failures>>
    /\ UNCHANGED notMain

Next ==
    \/ MainFiling
    \/ MainSummaryOk
    \/ MainSummaryFails
    \/ MainParse
    \/ MainParseRaises
    \/ MainStatementError
    \/ MainStatementRaises
    \/ MainStatementOk
    \/ MainWriteManifest

(***************************************************************************)
(* Statement tables                                                        *)
(*                                                                         *)
(* A cell's text is a sequence of fragments, as in pick_report; here every *)
(* fragment is a blank (" " or the no-break space Nbsp) or a run of text   *)
(* that starts and ends at a word boundary.  The empty cell is <<>>.       *)
(* A row is a sequence of cells, column 0 of the code being index 1.       *)
(***************************************************************************)
Nbsp == "nbsp"          \* the character U+00A0
Blanks == {" ", Nbsp}

\* str.strip(): leading and trailing blanks removed.
RECURSIVE LStrip(_)
LStrip(t) == IF t # <<>> /\ Head(t) \in Blanks THEN LStrip(Tail(t)) ELSE t

RECURSIVE RStrip(_)
RStrip(t) ==
    IF t # <<>> /\ t[Len(t)] \in Blanks THEN RStrip(SubSeq(t, 1, Len(t) - 1)) ELSE t

StripText(t) == RStrip(LStrip(t))

\* str.replace(" ", " ").
ReplaceNbsp(t) == [i \in 1..Len(t) |-> IF t[i] = Nbsp THEN " " ELSE t[i]]

\* Fragments matched whole by NUMISH_RE (line 25) or listed at line 205.
NumericFragments == {"100", "250", "(4,774)", "2023", "-"}
\* Fragments in which YEAR_RE (line 26) finds a year.
YearFragments == {"2023", "Dec. 31, 2023", "Dec. 31, 2022", "DEC. 31, 2023"}
\* Fragments in which HEADER_WORD_RE (line 27) finds a header word.
HeaderWordFragments == {"12 Months Ended", "As of"}

\* is_numericish, lines 201-207.  Two fragments joined by a blank are not
\* matched by NUMISH_RE: it allows no blank between digits.
is_numericish(s) ==
    LET t == StripText(ReplaceNbsp(s))
    IN  IF t = <<>> THEN FALSE ELSE Len(t) = 1 /\ t[1] \in NumericFragments

\* row_has_header_hint, lines 210-214.
row_has_header_hint(row) ==
    \E j \in 1..Len(row) : \E i \in 1..Len(row[j]) :
        row[j][i] \in YearFragments \cup HeaderWordFragments

\* values_blank, lines 614-615.
values_blank(row) == \A j \in 2..Len(row) : StripText(row[j]) = <<>>

\* max(len(r) for r in rows), lines 488, 498 and 519.
MaxLen(rows) ==
    IF rows = <<>> THEN 0
    ELSE CHOOSE n \in {Len(rows[i]) : i \in 1..Len(rows)} :
            \A i \in 1..Len(rows) : Len(rows[i]) <= n

\* r.extend([""] * (width - len(r))), lines 489-491 and 520-522.
NoPad(r, width) == r
Pad(r, width) == r \o [j \in 1..(width - Len(r)) |-> <<>>]

PadAll(rows) ==
    With(MaxLen(rows), LAMBDA width : [i \in 1..Len(rows) |-> Pad(rows[i], width)])

EmptyTable == [rows |-> <<>>, px |-> <<>>, meta |-> <<>>]

(***************************************************************************)
(* extract_indent_px and extract_table_rows                                *)
(*                                                                         *)
(* A table is the sequence of its <tr>; a <tr> is the sequence of its      *)
(* cells.  A cell carries its text (get_text with strip=True), colspan,    *)
(* rowspan, the indentation signals of lines 369-406 in whole pixels       *)
(* (style: the largest inline value, css: the largest class rule, lvl: the *)
(* largest level in a class name, nbsp: the leading no-break spaces) and   *)
(* the names of its ix: elements.                                          *)
(***************************************************************************)
NoSignal == [style |-> 0, css |-> 0, lvl |-> 0, nbsp |-> 0]

\* extract_indent_px, lines 369-406: the maximum of the four signals.
extract_indent_px(sig) ==
    Max(Max(sig.style, sig.css), Max(sig.lvl * 12, sig.nbsp * 4))

\* fill_from_span, lines 443-452.  st is [row, col, span]; span maps a
\* column to [rem, txt].
RECURSIVE fill_from_span(_)
fill_from_span(state) ==
    With(state, LAMBDA st :
        IF st.col \in DOMAIN st.span
        THEN LET e == st.span[st.col]
             IN  fill_from_span(
                    [row |-> Append(st.row, e.txt),
                     col |-> st.col + 1,
                     span |-> IF e.rem <= 1
                              THEN [c \in DOMAIN st.span \ {st.col} |-> st.span[c]]
                              ELSE [st.span EXCEPT
                                        ![st.col] = [rem |-> e.rem - 1, txt |-> e.txt]]])
        ELSE st)

\* Lines 472-476: the text is appended k more times.
RECURSIVE PutCell(_, _, _, _)
PutCell(state, txt, rowspan, k) ==
    With(state, LAMBDA st :
        IF k = 0 THEN st
        ELSE PutCell([row |-> Append(st.row, txt),
                      col |-> st.col + 1,
                      span |-> IF rowspan > 1
                               THEN (st.col :> [rem |-> rowspan - 1, txt |-> txt]) @@ st.span
                               ELSE st.span],
                     txt, rowspan, k - 1))

\* Lines 459-476: the loop over the cells of one <tr>.
RECURSIVE PutCells(_, _)
PutCells(st, cells) ==
    IF cells = <<>> THEN st
    ELSE LET c == Head(cells)
         IN  PutCells(PutCell(fill_from_span(st), ReplaceNbsp(c.txt), c.rowspan,
                              Max(1, c.colspan)),
                      Tail(cells))

\* Lines 435-483: one <tr>.  acc is [rows, px, meta, span].
ExtractRow(acc, cells) ==
    IF cells = <<>> /\ DOMAIN acc.span = {} THEN acc
    ELSE With(fill_from_span(
                PutCells(fill_from_span([row |-> <<>>, col |-> 0, span |-> acc.span]), cells)),
              LAMBDA st :
                LET kept == \E j \in 1..Len(st.row) : StripText(st.row[j]) # <<>>
                IN  [rows |-> IF kept THEN Append(acc.rows, st.row) ELSE acc.rows,
                     px |-> IF kept
                            THEN Append(acc.px,
                                        IF cells # <<>> THEN extract_indent_px(cells[1].sig)
                                        ELSE 0)
                            ELSE acc.px,
                     meta |-> IF kept
                              THEN Append(acc.meta,
                                          [concepts |-> IF cells # <<>> THEN cells[1].concepts
                                                        ELSE <<>>])
                              ELSE acc.meta,
                     span |-> st.span])

\* The loop of line 435 over the rows trs[i..].
RECURSIVE ExtractRows(_, _, _)
ExtractRows(state, trs, i) ==
    With(state, LAMBDA acc :
        IF i > Len(trs) THEN acc ELSE ExtractRows(ExtractRow(acc, trs[i]), trs, i + 1))

\* extract_table_rows, lines 427-492.
extract_table_rows(table) ==
    With(ExtractRows([rows |-> <<>>, px |-> <<>>, meta |-> <<>>, span |-> <<>>], table, 1),
         LAMBDA acc :
            IF acc.rows = <<>> THEN EmptyTable
            ELSE [rows |-> PadAll(acc.rows), px |-> acc.px, meta |-> acc.meta])

\* table_profile, lines 495-512.
CellsOf(rows) == UNION {{<<i, j>> : j \in 1..Len(rows[i])} : i \in 1..Len(rows)}

table_profile(rows) ==
    LET text(p) == StripText(ReplaceNbsp(rows[p[1]][p[2]]))
        filled == {p \in CellsOf(rows) : text(p) # <<>>}
    IN  [col_count |-> MaxLen(rows),
         numeric_cells |-> Cardinality({p \in filled : is_numericish(text(p))}),
         year_cells |->
            Cardinality({p \in filled : \E i \in 1..Len(text(p)) : text(p)[i] \in YearFragments}),
         nonempty |-> Cardinality(filled)]

(***************************************************************************)
(* merge_multiline_headers                                                 *)
(***************************************************************************)
HeaderScan == 10        \* rows[:10], line 525
NoMeta == [concepts |-> <<>>]

\* Lines 526-532: the three tests a row passes to enter the header block.
IsHeaderRow(r) ==
    LET vals == {j \in 2..Len(r) : StripText(r[j]) # <<>>}
    IN  /\ vals # {}
        /\ \A j \in vals : ~is_numericish(r[j])
        /\ row_has_header_hint(r)

\* Lines 524-533: len(header_block).
HeaderBlockLen(rows) ==
    LET scanned == Min(Len(rows), HeaderScan)
        full(k) == \A i \in 1..k : IsHeaderRow(rows[i])
    IN  CHOOSE k \in 0..scanned : full(k) /\ (k < scanned => ~full(k + 1))

\* Lines 540-544: column j of the merged header, over the rows hb.
RECURSIVE JoinColumn(_, _, _)
JoinColumn(hb, j, acc) ==
    IF hb = <<>> THEN acc
    ELSE LET part == StripText(Head(hb)[j + 1])
         IN  JoinColumn(Tail(hb), j,
                        IF part # <<>> THEN StripText(acc \o <<" ">> \o part) ELSE acc)

\* merge_multiline_headers, lines 515-550.
MergeRows(rows, px, meta) ==
    IF rows = <<>> THEN EmptyTable
    ELSE With(PadAll(rows), LAMBDA padded :
         With(HeaderBlockLen(padded), LAMBDA n :
            LET width == MaxLen(padded)
                merged == <<padded[1][1]>> \o
                          [j \in 1..(width - 1) |-> JoinColumn(SubSeq(padded, 1, n), j, <<>>)]
            IN  IF n < 2 THEN [rows |-> padded, px |-> px, meta |-> meta]
                ELSE [rows |-> <<merged>> \o SubSeq(padded, n + 1, Len(padded)),
                      px |-> <<IF px # <<>> THEN px[1] ELSE 0>> \o SubSeq(px, n + 1, Len(px)),
                      meta |-> <<IF meta # <<>> THEN meta[1] ELSE NoMeta>>
                               \o SubSeq(meta, n + 1, Len(meta))]))

merge_multiline_headers(table) == With(table, LAMBDA t : MergeRows(t.rows, t.px, t.meta))

(***************************************************************************)
(* select_and_stitch_tables                                                *)
(***************************************************************************)
MaxContinuations == 3   \* range(start_pos + 1, start_pos + 4), line 598
HeadRows == 3           \* range(min(3, len(rows2))), line 604

\* Line 567-569.
TableScore(rows) ==
    LET p == table_profile(rows)
    IN  p.numeric_cells * 3 + p.year_cells * 2 + Min(Len(rows), 220)
        - (IF p.col_count < 2 \/ p.nonempty < 12 THEN 500 ELSE 0)

\* looks_like_continuation, lines 578-584.
looks_like_continuation(rows, base_cols, base_num) ==
    LET p == table_profile(rows)
    IN  /\ p.col_count = base_cols
        /\ p.nonempty >= 8
        /\ p.numeric_cells >= Max(6, (base_num * 12) \div 100)

\* norm_row, lines 593-594, as the sequence of the normalized cells; the
\* code joins them with ' | ', which no cell of the model contains.
norm_row(r) == [j \in 1..Len(r) |-> StripText(LowerText(ReplaceNbsp(r[j])))]

\* Lines 603-606: the rows dropped from the head of a continuation.
DropNone(rows2, head_sig) == 0
DropCount(rows2, head_sig) ==
    LET hits == {t \in 1..Min(HeadRows, Len(rows2)) : norm_row(rows2[t]) = head_sig}
    IN  IF hits = {} THEN 0 ELSE CHOOSE t \in hits : \A u \in hits : u <= t

\* Lines 598-609: the loop over by_doc[k], k up to last.  acc is
\* [rows, px, meta, parts]; parts lists, for each table appended, its number
\* in the document and the rows dropped from its head.
RECURSIVE Continue(_, _, _, _, _, _)
Continue(by_doc, k, last, combined, base, head_sig) ==
    With(combined, LAMBDA acc :
        IF k > last THEN acc
        ELSE LET t == by_doc[k].table
             IN  IF ~looks_like_continuation(t.rows, base.col_count, base.numeric_cells)
                 THEN acc
                 ELSE With(DropCount(t.rows, head_sig), LAMBDA drop :
                        Continue(by_doc, k + 1, last,
                          [rows |-> acc.rows \o SubSeq(t.rows, drop + 1, Len(t.rows)),
                           px |-> acc.px \o SubSeq(t.px, drop + 1, Len(t.px)),
                           meta |-> acc.meta \o SubSeq(t.meta, drop + 1, Len(t.meta)),
                           parts |-> Append(acc.parts,
                                            [idx |-> by_doc[k].idx, drop |-> drop])],
                          base, head_sig)))

\* Lines 562-570 and 586: the tables that have rows, in document order.
RECURSIVE Candidates(_, _)
Candidates(page, idx) ==
    IF idx > Len(page) THEN <<>>
    ELSE With(extract_table_rows(page[idx]), LAMBDA t :
            (IF t.rows = <<>> THEN <<>> ELSE <<[idx |-> idx, table |-> t]>>)
            \o Candidates(page, idx + 1))

\* Lines 553-609: combined_rows, combined_ind_px, combined_meta before the
\* header merge, with the number of the primary table (0 when the page has
\* no candidate) and the parts appended.
\* Line 575: candidates.sort by score, reverse: a stable sort, so the first
\* table in document order among those of the best score comes first.
StartPos(sc) ==
    CHOOSE i \in 1..Len(sc) :
        /\ \A j \in 1..Len(sc) : sc[j] <= sc[i]
        /\ \A j \in 1..(i - 1) : sc[j] < sc[i]

StitchCandidates(by_doc) ==
    IF by_doc = <<>>
    THEN [rows |-> <<>>, px |-> <<>>, meta |-> <<>>, parts |-> <<>>, primary |-> 0]
    ELSE With(StartPos([i \in 1..Len(by_doc) |-> TableScore(by_doc[i].table.rows)]),
              LAMBDA start_pos :
         With(table_profile(by_doc[start_pos].table.rows), LAMBDA base :
         With(Continue(by_doc, start_pos + 1,
                       Min(start_pos + MaxContinuations, Len(by_doc)),
                       [rows |-> by_doc[start_pos].table.rows,
                        px |-> by_doc[start_pos].table.px,
                        meta |-> by_doc[start_pos].table.meta,
                        parts |-> <<>>],
                       base, norm_row(by_doc[start_pos].table.rows[1])),
              LAMBDA acc :
                [rows |-> acc.rows, px |-> acc.px, meta |-> acc.meta,
                 parts |-> acc.parts, primary |-> by_doc[start_pos].idx])))

Stitch(page) == With(Candidates(page, 1), LAMBDA by_doc : StitchCandidates(by_doc))

\* select_and_stitch_tables, lines 553-611.
select_and_stitch_tables(page) == merge_multiline_headers(Stitch(page))

(***************************************************************************)
(* filter_scaffolding                                                      *)
(***************************************************************************)
\* SCAFFOLD_RE, line 44, searched in the stripped label.
ScaffoldTags == {"[abstract]", "[line items]", "[table]", "[axis]", "[member]"}
ScaffoldLabel(label) ==
    label # <<>> /\ Lower(label[Len(label)]) \in ScaffoldTags

\* Line 627.
AbstractConcept(concepts) ==
    \E i \in 1..Len(concepts) :
        concepts[i] # <<>> /\ Lower(concepts[i][Len(concepts[i])]) = "abstract"

\* Lines 620-636, one row: <<>> when it is dropped, else its output entry.
FilterRowOut(r, ipx, m, keep_abstract) ==
    LET label == StripText(r[1])
        scaffold == ScaffoldLabel(label) \/ AbstractConcept(m.concepts)
    IN  IF label = <<>> THEN <<>>
        ELSE IF ~keep_abstract /\ scaffold /\ values_blank(r) THEN <<>>
        ELSE <<[row |-> r, px |-> ipx, meta |-> [concepts |-> m.concepts, scaffold |-> scaffold]]>>

RECURSIVE FilterFrom(_, _, _)
FilterFrom(t, i, keep_abstract) ==
    IF i > Min(Len(t.rows), Min(Len(t.px), Len(t.meta))) THEN <<>>
    ELSE FilterRowOut(t.rows[i], t.px[i], t.meta[i], keep_abstract)
            \o FilterFrom(t, i + 1, keep_abstract)

\* filter_scaffolding, lines 618-638.
filter_scaffolding(t, keep_abstract) ==
    With(FilterFrom(t, 1, keep_abstract), LAMBDA out :
        [rows |-> [i \in 1..Len(out) |-> out[i].row],
         px |-> [i \in 1..Len(out) |-> out[i].px],
         meta |-> [i \in 1..Len(out) |-> out[i].meta]])

(***************************************************************************)
(* infer_indent_levels                                                     *)
(***************************************************************************)
\* str.upper() on the statement kinds.
Upper(s) == CASE s = "cfs" -> "CFS" [] s = "bs" -> "BS" [] s = "is" -> "IS" [] OTHER -> s

\* major_cfs, line 647, on a stripped label.
major_cfs(label) ==
    LET l == LowerText(label)
    IN  /\ Len(l) >= 3
        /\ l[1] \in {"operating", "investing", "financing"}
        /\ \A i \in 2..(Len(l) - 1) : l[i] \in Blanks
        /\ l[Len(l)] = "activities:"

\* sub_adjust, line 648.
sub_adjust_whole(label) == Len(label) = 1 /\ Lower(label[1]) = "adjustments"
sub_adjust(label) == label # <<>> /\ Lower(label[1]) = "adjustments"

\* sub_changes, line 649.
sub_changes(label) ==
    /\ Len(label) >= 3
    /\ Lower(label[1]) = "changes"
    /\ label[2] = " "
    /\ Lower(label[3]) = "in"

NoContext == [in_major |-> FALSE, in_adjust |-> FALSE, in_changes |-> FALSE]

\* Lines 655-702: one iteration of the loop, for row r at index i (from 0).
\* Gives the context after the row and the row's level.
InferRow(c, r, i, stmt) ==
    LET label == StripText(r[1])
    IN  IF i = 0 THEN [ctx |-> c, level |-> 0]
        ELSE IF ~values_blank(r)
        THEN [ctx |-> c,
              level |-> IF stmt = "CFS"
                        THEN (IF c.in_changes THEN 3 ELSE IF c.in_adjust THEN 2 ELSE 1)
                        ELSE 1]
        ELSE IF stmt # "CFS" THEN [ctx |-> c, level |-> 0]
        ELSE IF major_cfs(label)
        THEN [ctx |-> [in_major |-> TRUE, in_adjust |-> FALSE, in_changes |-> FALSE],
              level |-> 0]
        ELSE IF sub_adjust(label)
        THEN [ctx |-> [c EXCEPT !.in_adjust = TRUE, !.in_changes = FALSE], level |-> 1]
        ELSE IF sub_changes(label)
        THEN [ctx |-> [c EXCEPT !.in_changes = TRUE],
              level |-> IF c.in_adjust THEN 2 ELSE 1]
        ELSE [ctx |-> c,
              level |-> IF c.in_changes THEN 2 ELSE IF c.in_adjust THEN 1 ELSE 0]

RECURSIVE InferFrom(_, _, _, _)
InferFrom(rows, i, c, stmt) ==
    IF i >= Len(rows) THEN <<>>
    ELSE With(InferRow(c, rows[i + 1], i, stmt), LAMBDA s :
            <<s.level>> \o InferFrom(rows, i + 1, s.ctx, stmt))

\* infer_indent_levels, lines 641-704.
infer_indent_levels(rows, stmt) == InferFrom(rows, 0, NoContext, Upper(stmt))

(***************************************************************************)
(* The indent resolver, lines 805-812                                      *)
(***************************************************************************)
PxPerLevel == 12

\* int(round(v / 12.0)), line 811: Python rounds a tie to the even integer.
RoundDown(v) == v \div PxPerLevel
RoundLevel(v) ==
    LET q == v \div PxPerLevel
        r == v % PxPerLevel
    IN  IF 2 * r < PxPerLevel THEN q
        ELSE IF 2 * r > PxPerLevel THEN q + 1
        ELSE IF q % 2 = 0 THEN q ELSE q + 1

ResolveIndent(t, key) ==
    IF \A i \in 1..Len(t.px) : t.px[i] = 0
    THEN [indent |-> infer_indent_levels(t.rows, key), mode |-> "inferred"]
    ELSE [indent |-> [i \in 1..Len(t.px) |-> RoundLevel(t.px[i])], mode |-> "from_html"]

(***************************************************************************)
(* One statement of main, lines 796-812: the report's tables are selected  *)
(* and stitched, scaffolding is filtered, the indent is resolved.          *)
(***************************************************************************)
Td(txt) == [txt |-> txt, colspan |-> 1, rowspan |-> 1, sig |-> NoSignal, concepts |-> <<>>]
TdSpan(txt, cs, rs) ==
    [txt |-> txt, colspan |-> cs, rowspan |-> rs, sig |-> NoSignal, concepts |-> <<>>]
Th(txt, sig, concepts) ==
    [txt |-> txt, colspan |-> 1, rowspan |-> 1, sig |-> sig, concepts |-> concepts]
Label(txt) == Th(txt, NoSignal, <<>>)

Val == Td(<<"100">>)
Paren == Td(<<"(4,774)">>)
Empty == Td(<<>>)

HeaderTr == <<Label(<<"Balance Sheet - USD ($)">>), Td(<<"Dec. 31, 2023">>), Td(<<"Dec. 31, 2022">>)>>

\* The dominant table of a balance sheet: a scaffold row, and labels
\* indented by a class name (pl1) and by an inline style (24px).
PrimaryTable ==
    << HeaderTr,
       <<Label(<<"Assets", " ", "[Abstract]">>), Empty, Empty>>,
       <<Th(<<"Cash">>, [NoSignal EXCEPT !.lvl = 1], <<>>), Val, Val>>,
       <<Th(<<"Receivables">>, [NoSignal EXCEPT !.style = 24], <<>>), Val, Paren>>,
       <<Label(<<"Total assets">>), Val, Val>> >>

\* A continuation that repeats the header, in another case.
RepeatTable ==
    << <<Label(<<"Balance Sheet - USD ($)">>), Td(<<"DEC. 31, 2023">>), Td(<<"Dec. 31, 2022">>)>>,
       <<Label(<<"Debt">>), Val, Val>>,
       <<Label(<<"Payables">>), Val, Val>>,
       <<Label(<<"Total liabilities">>), Val, Val>> >>

\* A continuation without a header: a colspan, a short row, a row whose
\* concept ends in Abstract, a row without a label.
RaggedTable ==
    << <<Th(<<"Equity">>, NoSignal, << <<"us-gaap:", "Equity", "Abstract">> >>),
         TdSpan(<<>>, 2, 1)>>,
       <<Label(<<"Common stock">>), Val, Val>>,
       <<Label(<<>>), Val, Val>>,
       <<Label(<<"Retained earnings">>), Val>>,
       <<Th(<<"Total equity">>, [NoSignal EXCEPT !.nbsp = 5], <<>>), Val, Val>> >>

\* A table of another width.
NarrowTable ==
    << <<Label(<<"Shares">>), Val>>,
       <<Label(<<"Par value">>), Val>> >>

\* A header of two lines: the label spans both rows, the period both columns.
TwoLineTable ==
    << <<[Label(<<"Income Statement">>) EXCEPT !.rowspan = 2],
         TdSpan(<<"12 Months Ended">>, 2, 1)>>,
       <<Td(<<"Dec. 31, 2023">>), Td(<<"Dec. 31, 2022">>)>>,
       <<Label(<<"Revenue">>), Val, Val>>,
       <<Th(<<"Net", Nbsp, "income">>, [NoSignal EXCEPT !.css = 18], <<>>), Val, Val>> >>

\* A table whose first row has no label and whose next row is indented.
IndentedTable ==
    << <<Label(<<>>), Td(<<"Dec. 31, 2023">>), Td(<<"Dec. 31, 2022">>)>>,
       <<Th(<<"Cash">>, [NoSignal EXCEPT !.style = 6], <<>>), Val, Val>>,
       <<Label(<<"Total">>), Val, Val>> >>

\* A table whose first row is indented.
TitleIndentedTable ==
    << <<Th(<<"Cash flows">>, [NoSignal EXCEPT !.style = 24], <<>>), Val, Val>>,
       <<Label(<<"Total">>), Val, Val>> >>

\* Scenario S4 of the specification: a cash-flow table without any indent.
S4Table ==
    << <<Label(<<"Operating", " ", "activities:">>), Empty>>,
       <<Label(<<"Net income">>), Val>>,
       <<Label(<<"Adjustments", " ", "to reconcile">>), Empty>>,
       <<Label(<<"Depreciation">>), Val>>,
       <<Label(<<"Changes", " ", "in", " ", "operating assets and liabilities:">>), Empty>>,
       <<Label(<<"Accounts receivable">>), Val>> >>

\* A table without any text.
BlankTable == << <<>>, <<Empty, Empty>> >>

SampleTables ==
    {PrimaryTable, RepeatTable, RaggedTable, NarrowTable, TwoLineTable, IndentedTable,
     TitleIndentedTable, S4Table, BlankTable}

\* A page with more continuations than the stitcher appends.
LongPage == <<PrimaryTable, RepeatTable, BlankTable, RaggedTable, RepeatTable, RepeatTable>>

\* A continuation that repeats the header below a title of its own.
TitledRepeatTable ==
    << <<Label(<<"Liabilities">>), Empty, Empty>>,
       HeaderTr,
       <<Label(<<"Debt">>), Val, Val>>,
       <<Label(<<"Payables">>), Val, Val>>,
       <<Label(<<"Total liabilities">>), Val, Val>> >>

TitledPage == <<PrimaryTable, TitledRepeatTable>>

Pages == SeqsUpTo(SampleTables, MaxTables) \cup {LongPage, TitledPage}

NoOutput == [indent |-> <<>>, mode |-> ""]
NoStitch == [rows |-> <<>>, px |-> <<>>, meta |-> <<>>, parts |-> <<>>, primary |-> 0]

StatementInit ==
    /\ s_pc = "soup"
    /\ s_page \in Pages
    /\ s_key \in {"BS", "IS", "CFS"}
    /\ s_keep \in BOOLEAN
    /\ s_tab = EmptyTable
    /\ s_combined = NoStitch
    /\ s_stitched = EmptyTable
    /\ s_out = NoOutput

StatementIdle ==
    /\ s_pc = "off"
    /\ s_page = <<>>
    /\ s_key = ""
    /\ s_keep = FALSE
    /\ s_tab = EmptyTable
    /\ s_combined = NoStitch
    /\ s_stitched = EmptyTable
    /\ s_out = NoOutput

\* Lines 797-800: select_and_stitch_tables; without rows the statement is
\* given up with an error.
SelectAndStitch ==
    /\ s_pc = "soup"
    /\ s_combined' = Stitch(s_page)
    /\ s_tab' = select_and_stitch_tables(s_page)
    /\ s_stitched' = s_tab'
    /\ s_pc' = IF s_tab'.rows = <<>> THEN "no_tables" ELSE "stitched"
    /\ UNCHANGED <<s_page, s_key, s_keep, s_out>>
    /\ UNCHANGED notStatement

\* Line 803.
FilterScaffolding ==
    /\ s_pc = "stitched"
    /\ s_tab' = filter_scaffolding(s_tab, s_keep)
    /\ s_pc' = "filtered"
    /\ UNCHANGED <<s_page, s_key, s_keep, s_combined, s_stitched, s_out>>
    /\ UNCHANGED notStatement

\* Lines 805-836: the indent is resolved and the artifact written.
WriteStatement ==
    /\ s_pc = "filtered"
    /\ s_out' = ResolveIndent(s_tab, s_key)
    /\ s_pc' = "written"
    /\ UNCHANGED <<s_page, s_key, s_keep, s_tab, s_combined, s_stitched>>
    /\ UNCHANGED notStatement

StatementNext ==
    \/ SelectAndStitch
    \/ FilterScaffolding
    \/ WriteStatement

(***************************************************************************)
(* merge_multiline_headers applied to a table, and to its own output       *)
(***************************************************************************)
PeriodRow == << <<>>, <<"12 Months Ended">>, <<>> >>
DatesRow == << <<"Item">>, <<"Dec. 31, 2023">>, <<"Dec. 31, 2022">> >>
\* n header rows, the period and the dates in turn.
HeaderRows(n) == [i \in 1..n |-> IF i % 2 = 1 THEN PeriodRow ELSE DatesRow]

TailRows ==
    { << <<"Cash">>, <<"100">>, <<"250">> >>,
      << <<"Assets">>, <<>>, <<>> >>,
      << <<>>, <<"2023">>, <<"2023">> >>,
      << <<"Total">>, <<" ", "100", " ">> >> }

MergeInputs ==
    { [rows |-> HeaderRows(n) \o tail,
       px |-> [i \in 1..(n + Len(tail)) |-> 12 * (i % 3)],
       meta |-> [i \in 1..(n + Len(tail)) |-> NoMeta]] :
        n \in 0..MaxHeaderRows, tail \in SeqsUpTo(TailRows, MaxTail) }

MergeInit ==
    /\ h_tab \in MergeInputs
    /\ h_n = 0
    /\ h_once = EmptyTable

MergeIdle ==
    /\ h_tab = EmptyTable
    /\ h_n = None
    /\ h_once = EmptyTable

\* One application of merge_multiline_headers to the table at hand.
MergeHeaders ==
    /\ h_n \in {0, 1}
    /\ h_tab' = merge_multiline_headers(h_tab)
    /\ h_once' = IF h_n = 0 THEN h_tab' ELSE h_once
    /\ h_n' = h_n + 1
    /\ UNCHANGED notMerge

MergeNext == MergeHeaders

(***************************************************************************)
(* infer_indent_levels, one iteration of its loop at a time                *)
(***************************************************************************)
MajorRow == << <<"Operating", " ", "activities:">>, <<>> >>
AdjustRow == << <<"Adjustments", " ", "to reconcile">>, <<>> >>
ChangesRow == << <<"Changes", " ", "in", " ", "operating assets and liabilities:">>, <<>> >>
GenericRow == << <<"Supplemental disclosures">>, <<>> >>
DataRow == << <<"Net income">>, <<"100">> >>
ChangesDataRow == << <<"Changes", " ", "in", " ", "cash">>, <<"100">> >>

InferRows == {MajorRow, AdjustRow, ChangesRow, GenericRow, DataRow, ChangesDataRow}

\* Scenario S4 of the specification.
S4Rows ==
    << MajorRow,
       DataRow,
       AdjustRow,
       << <<"Depreciation">>, <<"100">> >>,
       ChangesRow,
       << <<"Accounts receivable">>, <<"100">> >> >>

InferInit ==
    /\ i_rows \in SeqsUpTo(InferRows, MaxInferRows) \cup {S4Rows}
    /\ i_stmt \in {"CFS", "cfs", "BS"}
    /\ i_n = 0
    /\ i_ctx = NoContext
    /\ i_levels = <<>>

InferIdle ==
    /\ i_rows = <<>>
    /\ i_stmt = ""
    /\ i_n = None
    /\ i_ctx = NoContext
    /\ i_levels = <<>>

\* Lines 655-702: the iteration for row i_n.
InferStep ==
    /\ i_n >= 0
    /\ i_n < Len(i_rows)
    /\ LET s == InferRow(i_ctx, i_rows[i_n + 1], i_n, Upper(i_stmt))
       IN  /\ i_ctx' = s.ctx
           /\ i_levels' = Append(i_levels, s.level)
    /\ i_n' = i_n + 1
    /\ UNCHANGED <<i_rows, i_stmt>>
    /\ UNCHANGED notInfer

InferNext == InferStep

(***************************************************************************)
(* The files and directories main creates for one filing, lines 739-849    *)
(*                                                                         *)
(* A path is [abs, parts]: whether it starts at the root, and its          *)
(* components; a resolved path is the sequence of its components from the  *)
(* root.  The output directory args.out is /out, the CIK 0000320193.       *)
(***************************************************************************)
Rel(parts) == [abs |-> FALSE, parts |-> parts]
Abs(parts) == [abs |-> TRUE, parts |-> parts]

\* pathlib's a / b: an absolute b replaces a.
Join(a, b) == IF b.abs THEN b ELSE [abs |-> a.abs, parts |-> a.parts \o b.parts]

\* The symbolic links of the file system: the link, and where it leads.
Symlinks == (<<"out", "0000320193", "latest">> :> <<"mnt", "share">>)

\* Path.resolve() of an absolute path: '..' steps up, a link is followed.
RECURSIVE ResolveFrom(_, _)
ResolveFrom(at, parts) ==
    With(at, LAMBDA stack :
        IF parts = <<>> THEN stack
        ELSE LET c == Head(parts)
                 next == Append(stack, c)
             IN  ResolveFrom(
                    IF c = ".." THEN SubSeq(stack, 1, Len(stack) - 1)
                    ELSE IF next \in DOMAIN Symlinks THEN Symlinks[next]
                    ELSE next,
                    Tail(parts)))

Resolve(path) == ResolveFrom(<<>>, path.parts)

\* rr in out.parents, line 157.
IsParent(rr, out) == Len(rr) < Len(out) /\ SubSeq(out, 1, Len(rr)) = rr

\* safe_join, lines 154-159: <<>> when it refuses, else <<out>>.
safe_join(root, rel) ==
    LET out == Resolve(Join(root, rel))
        rr == Resolve(root)
    IN  IF out # rr /\ ~IsParent(rr, out) THEN <<>> ELSE <<out>>

\* mkdir(parents=True, exist_ok=True): the directory and those above it.
MkDirs(fs, dir) == fs \cup {SubSeq(dir, 1, n) : n \in 0..Len(dir)}

\* Path(htmlf).name, line 317, as the path main makes of it at line 794:
\* the last component, or the empty path when there is none.
NameOf(path) ==
    Rel(IF path.parts = <<>> THEN <<>> ELSE <<path.parts[Len(path.parts)]>>)

out_root == Abs(<<"out", "0000320193">>)
filing_dir == Join(out_root, w_acc)

\* Accession numbers as the submissions index can give them: any non-blank
\* string.
AccessionPaths ==
    { Rel(<<"0000320193-23-000106">>), Rel(<<"latest">>), Rel(<<"..">>),
      Rel(<<"..", "..", "etc">>), Rel(<<"a", "..", "b">>), Abs(<<"tmp", "x">>) }

\* HtmlFileName texts as FilingSummary.xml can give them: any non-blank
\* string.
HtmlFilePaths ==
    { Rel(<<"R2.htm">>), Rel(<<"..", "..", "R4.htm">>), Rel(<<"..">>), Rel(<<"sub", "..">>),
      Abs(<<>>) }

InitialFiles == {<<>>, <<"out">>, <<"mnt">>, <<"mnt", "share">>}

WritesInit ==
    /\ w_pc = "start"
    /\ w_acc \in AccessionPaths
    /\ w_html \in HtmlFilePaths
    /\ w_fs = InitialFiles
    /\ w_refused = {}

WritesIdle ==
    /\ w_pc = "off"
    /\ w_acc = Rel(<<>>)
    /\ w_html = Rel(<<>>)
    /\ w_fs = {}
    /\ w_refused = {}

\* Lines 739-740.
MakeOutRoot ==
    /\ w_pc = "start"
    /\ w_fs' = MkDirs(w_fs, Resolve(out_root))
    /\ w_pc' = "filing"
    /\ UNCHANGED <<w_acc, w_html, w_refused>>
    /\ UNCHANGED notWrites

\* Lines 753-754.
MakeFilingDir ==
    /\ w_pc = "filing"
    /\ w_fs' = MkDirs(w_fs, Resolve(filing_dir))
    /\ w_pc' = "summary"
    /\ UNCHANGED <<w_acc, w_html, w_refused>>
    /\ UNCHANGED notWrites

\* write_text, lines 162-166, of the file rel under root; next is where main
\* goes on after the write, refused where it goes when safe_join raises, or
\* when the path is the directory root itself and write_text raises.
WriteText(root, rel, next, refused) ==
    LET p == safe_join(root, rel)
    IN  IF p = <<>>
        THEN /\ w_refused' = w_refused \cup {Join(root, rel)}
             /\ w_fs' = w_fs
             /\ w_pc' = refused
        ELSE IF p[1] = Resolve(root)
        THEN /\ w_refused' = w_refused
             /\ w_fs' = w_fs
             /\ w_pc' = refused
        ELSE /\ w_refused' = w_refused
             /\ w_fs' = MkDirs(w_fs, p[1])
             /\ w_pc' = next

\* Lines 767-774: FilingSummary.xml is written; a failure of the fetch or of
\* the write ends the filing.
WriteSummary ==
    /\ w_pc = "summary"
    /\ \/ WriteText(filing_dir, Rel(<<"FilingSummary.xml">>), "report", "manifest")
       \/ /\ w_pc' = "manifest"
          /\ UNCHANGED <<w_fs, w_refused>>
    /\ UNCHANGED <<w_acc, w_html>>
    /\ UNCHANGED notWrites

\* Lines 784-794: the report's HTML is written, unless no report was picked
\* or its fetch failed.  A refusal is not caught: the run ends.
WriteReport ==
    /\ w_pc = "report"
    /\ \/ WriteText(filing_dir, NameOf(w_html), "artifact", "crashed")
       \/ /\ w_pc' = "manifest"
          /\ UNCHANGED <<w_fs, w_refused>>
    /\ UNCHANGED <<w_acc, w_html>>
    /\ UNCHANGED notWrites

\* Lines 798-836: the CSV and the JSON of the statement, unless no table was
\* found.
WriteArtifact ==
    /\ w_pc = "artifact"
    /\ \/ /\ w_fs' = MkDirs(MkDirs(w_fs, Resolve(Join(filing_dir, Rel(<<"balance_sheet.csv">>)))),
                            Resolve(Join(filing_dir, Rel(<<"balance_sheet.json">>))))
          /\ w_pc' = "manifest"
          /\ UNCHANGED w_refused
       \/ /\ w_pc' = "manifest"
          /\ UNCHANGED <<w_fs, w_refused>>
    /\ UNCHANGED <<w_acc, w_html>>
    /\ UNCHANGED notWrites

\* Line 849.
WriteManifestFile ==
    /\ w_pc = "manifest"
    /\ WriteText(out_root, Rel(<<"manifest.json">>), "done", "crashed")
    /\ UNCHANGED <<w_acc, w_html>>
    /\ UNCHANGED notWrites

WritesNext ==
    \/ MakeOutRoot
    \/ MakeFilingDir
    \/ WriteSummary
    \/ WriteReport
    \/ WriteArtifact
    \/ WriteManifestFile

(***************************************************************************)
(* norm_cik, lines 130-134                                                 *)
(*                                                                         *)
(* A string is the sequence of its characters.                             *)
(***************************************************************************)
DigitChars == <<"0", "1", "2", "3", "4", "5", "6", "7", "8", "9">>
IsDigit(c) == \E d \in 1..10 : DigitChars[d] = c
\* Whitespace for str.strip(): the space and the no-break space.
IsSpace(c) == c \in {" ", "nbsp"}

\* str.strip() on characters.
RECURSIVE LStripChars(_)
LStripChars(s) == IF s # <<>> /\ IsSpace(Head(s)) THEN LStripChars(Tail(s)) ELSE s
RECURSIVE RStripChars(_)
RStripChars(s) ==
    IF s # <<>> /\ IsSpace(s[Len(s)]) THEN RStripChars(SubSeq(s, 1, Len(s) - 1)) ELSE s
StripChars(s) == RStripChars(LStripChars(s))

\* re.sub(r"\D", "", s), line 131.
OnlyDigits(s) == SelectSeq(s, IsDigit)

\* str.zfill(width): zeros on the left up to the width, nothing cut.
zfill(s, width) ==
    IF Len(s) >= width THEN s ELSE [i \in 1..(width - Len(s)) |-> "0"] \o s

CikWidth == 10

\* norm_cik: <<>> when it raises SystemExit, else <<the string>>.
norm_cik(cik) ==
    LET s == OnlyDigits(StripChars(cik))
    IN  IF s = <<>> THEN <<>> ELSE <<zfill(s, CikWidth)>>

CikChars == {"0", "7", " ", "-"}

\* The --cik argument: a few characters of any kind, then a run of digits.
CikInputs ==
    { head \o [i \in 1..n |-> "1"] :
        head \in SeqsUpTo(CikChars, MaxCikLen), n \in 0..MaxCikDigits }

CikInit ==
    /\ k_pc = "call"
    /\ k_cik \in CikInputs
    /\ k_out = <<>>

CikIdle ==
    /\ k_pc = "off"
    /\ k_cik = <<>>
    /\ k_out = <<>>

NormCik ==
    /\ k_pc = "call"
    /\ LET r == norm_cik(k_cik)
       IN  /\ k_pc' = IF r = <<>> THEN "exit" ELSE "returned"
           /\ k_out' = IF r = <<>> THEN <<>> ELSE r[1]
    /\ UNCHANGED k_cik
    /\ UNCHANGED notCik

CikNext == NormCik

(***************************************************************************)
(* is_numericish, lines 201-207, on the characters of a cell.  The         *)
(* characters outside ASCII are named: nbsp, emdash, endash.               *)
(***************************************************************************)
\* s.replace(nbsp, " "), line 202.
ReplaceNbspChars(s) == [i \in 1..Len(s) |-> IF s[i] = "nbsp" THEN " " ELSE s[i]]

\* The position after the longest run, from position at, of characters
\* of the set chars.
RECURSIVE SkipWhile(_, _, _)
SkipWhile(s, at, chars) ==
    With(at, LAMBDA i :
        IF i <= Len(s) /\ s[i] \in chars THEN SkipWhile(s, i + 1, chars) ELSE i)

\* The position after an optional character c at position at.
Opt(s, at, c) == With(at, LAMBDA i : IF i <= Len(s) /\ s[i] = c THEN i + 1 ELSE i)

Spaces == {" "}
Digits == {DigitChars[d] : d \in 1..10}
DigitsAndComma == Digits \cup {","}

\* ([.]\d+)? at position at.
OptFraction(s, at) ==
    With(at, LAMBDA i :
        IF i + 1 <= Len(s) /\ s[i] = "." /\ IsDigit(s[i + 1])
        THEN SkipWhile(s, i + 2, Digits)
        ELSE i)

\* NUMISH_RE.match(s), line 25:
\* ^\s*\(?\s*-?\s*\$?\s*\d[\d,]*([.]\d+)?\s*\)?\s*$
NUMISH_RE(s) ==
    With(SkipWhile(s, Opt(s, SkipWhile(s, Opt(s, SkipWhile(s, Opt(s, SkipWhile(s, 1, Spaces),
              "("), Spaces), "-"), Spaces), "$"), Spaces),
         LAMBDA d :
            /\ d <= Len(s)
            /\ IsDigit(s[d])
            /\ SkipWhile(s, Opt(s, SkipWhile(s, OptFraction(s,
                    SkipWhile(s, d + 1, DigitsAndComma)), Spaces), ")"), Spaces)
                 = Len(s) + 1)

Dashes == {<<"emdash">>, <<"-">>, <<"endash">>}

\* is_numericish on characters (the operator is_numericish above is the
\* same function on the fragments of the table model).
IsNumericish(text) ==
    With(StripChars(ReplaceNbspChars(text)), LAMBDA s :
        IF s = <<>> THEN FALSE
        ELSE IF s \in Dashes THEN TRUE
        ELSE NUMISH_RE(s))

NumericChars == {"1", ",", "$", "(", ")", "-", " ", ".", "A", "nbsp"}

\* The cells the specification lists as accepted, and as rejected.
ListedAccepted ==
    { <<"3", "4", "9", "4", "0">>,
      <<"3", "4", ",", "9", "4", "0">>,
      <<"$", "3", "4", ",", "9", "4", "0">>,
      <<"$", " ", "3", "4", ",", "9", "4", "0">>,
      <<"(", "4", ",", "7", "7", "4", ")">>,
      <<"(", "$", " ", "4", ",", "7", "7", "4", ")">>,
      <<"-", "1", "2", "3">>,
      <<"emdash">>, <<"-">>, <<"endash">> }
ListedRejected ==
    { <<"A", "s", "s", "e", "t", "s">>, <<>>, <<" ">>, <<"2", "0", "2", "4">> }

NumericInit ==
    /\ n_pc = "call"
    /\ n_s \in SeqsUpTo(NumericChars, MaxNumLen) \cup ListedAccepted \cup ListedRejected
    /\ n_out = FALSE

NumericIdle ==
    /\ n_pc = "off"
    /\ n_s = <<>>
    /\ n_out = FALSE

IsNumericishCall ==
    /\ n_pc = "call"
    /\ n_out' = IsNumericish(n_s)
    /\ n_pc' = "returned"
    /\ UNCHANGED n_s
    /\ UNCHANGED notNumeric

NumericNext == IsNumericishCall

(***************************************************************************)
(* The viewer's _compute_paths, edgar_viewer.py lines 55-68                *)
(***************************************************************************)
\* str(x) of a non-negative integer.
RECURSIVE Str(_)
Str(n) ==
    IF n < 10 THEN <<DigitChars[n + 1]>>
    ELSE Str(n \div 10) \o <<DigitChars[(n % 10) + 1]>>

\* ".".join(str(x) for x in stack), line 66.
RECURSIVE DotJoin(_)
DotJoin(stack) ==
    IF stack = <<>> THEN <<>>
    ELSE IF Len(stack) = 1 THEN Str(stack[1])
    ELSE Str(stack[1]) \o <<".">> \o DotJoin(Tail(stack))

\* Lines 59-60.
Clamp(lvl) == IF lvl < 0 THEN 0 ELSE lvl

\* Lines 59-65: the stack after the iteration for lvl.
NextStackNoPop(stack, lvl) ==
    LET base == IF Len(stack) > Clamp(lvl) + 1 THEN stack
                ELSE stack \o [i \in 1..(Clamp(lvl) + 1 - Len(stack)) |-> 0]
    IN  [base EXCEPT ![Len(base)] = @ + 1]
NextStack(stack, lvl) ==
    LET base == IF Len(stack) > Clamp(lvl) + 1 THEN SubSeq(stack, 1, Clamp(lvl) + 1)
                ELSE stack \o [i \in 1..(Clamp(lvl) + 1 - Len(stack)) |-> 0]
    IN  [base EXCEPT ![Len(base)] = @ + 1]

PathLevels == {-1, 0, 1, 2, 3}

\* Ten rows at level 0 and a row below the tenth.
ManyRoots == [i \in 1..11 |-> IF i <= 10 THEN 0 ELSE 1]

PathsInit ==
    /\ v_levels \in SeqsUpTo(PathLevels, MaxPathRows) \cup {ManyRoots}
    /\ v_n = 0
    /\ v_stack = <<0>>
    /\ v_paths = <<>>

PathsIdle ==
    /\ v_levels = <<>>
    /\ v_n = None
    /\ v_stack = <<>>
    /\ v_paths = <<>>

\* Lines 58-66: one iteration of the loop.
ComputePath ==
    /\ v_n >= 0
    /\ v_n < Len(v_levels)
    /\ v_stack' = NextStack(v_stack, v_levels[v_n + 1])
    /\ v_paths' = Append(v_paths, DotJoin(v_stack'))
    /\ v_n' = v_n + 1
    /\ UNCHANGED v_levels
    /\ UNCHANGED notPaths

PathsNext == ComputePath

(***************************************************************************)
(* Specifications                                                          *)
(***************************************************************************)
UtilIdle == CikIdle /\ NumericIdle /\ PathsIdle
TablesIdle == StatementIdle /\ MergeIdle /\ InferIdle /\ WritesIdle /\ UtilIdle
PipelineIdle ==
    ClientIdle /\ PickIdle /\ GatherIdle /\ SummaryIdle /\ ReportIdle /\ MainIdle
MachinesIdle == PipelineIdle /\ StatementIdle /\ MergeIdle /\ InferIdle /\ WritesIdle

InitClient == ClientInit /\ PickIdle /\ GatherIdle /\ SummaryIdle /\ ReportIdle /\ MainIdle /\ TablesIdle
SpecClient == InitClient /\ [][ClientNext]_vars

InitPick == PickInit /\ ClientIdle /\ GatherIdle /\ SummaryIdle /\ ReportIdle /\ MainIdle /\ TablesIdle
SpecPick == InitPick /\ [][PickNext]_vars

InitGather == GatherInit /\ ClientIdle /\ PickIdle /\ SummaryIdle /\ ReportIdle /\ MainIdle /\ TablesIdle
SpecGather == InitGather /\ [][GatherNext]_vars

InitSummary == SummaryInit /\ ClientIdle /\ PickIdle /\ GatherIdle /\ ReportIdle /\ MainIdle /\ TablesIdle
SpecSummary == InitSummary /\ [][SummaryNext]_vars

InitReport == ReportInit /\ ClientIdle /\ PickIdle /\ GatherIdle /\ SummaryIdle /\ MainIdle /\ TablesIdle
SpecReport == InitReport /\ [][ReportNext]_vars

Init == MainInit /\ ClientIdle /\ PickIdle /\ GatherIdle /\ SummaryIdle /\ ReportIdle /\ TablesIdle
Spec == Init /\ [][Next]_vars

InitStatement == StatementInit /\ PipelineIdle /\ MergeIdle /\ InferIdle /\ WritesIdle /\ UtilIdle
SpecStatement == InitStatement /\ [][StatementNext]_vars

InitMerge == MergeInit /\ PipelineIdle /\ StatementIdle /\ InferIdle /\ WritesIdle /\ UtilIdle
SpecMerge == InitMerge /\ [][MergeNext]_vars

InitInfer == InferInit /\ PipelineIdle /\ StatementIdle /\ MergeIdle /\ WritesIdle /\ UtilIdle
SpecInfer == InitInfer /\ [][InferNext]_vars

InitWrites == WritesInit /\ PipelineIdle /\ StatementIdle /\ MergeIdle /\ InferIdle /\ UtilIdle
SpecWrites == InitWrites /\ [][WritesNext]_vars

InitCik == CikInit /\ MachinesIdle /\ NumericIdle /\ PathsIdle
SpecCik == InitCik /\ [][CikNext]_vars

InitNumeric == NumericInit /\ MachinesIdle /\ CikIdle /\ PathsIdle
SpecNumeric == InitNumeric /\ [][NumericNext]_vars

InitPaths == PathsInit /\ MachinesIdle /\ CikIdle /\ NumericIdle
SpecPaths == InitPaths /\ [][PathsNext]_vars

(***************************************************************************)
(* Claims about pick_10ks                                                  *)
(***************************************************************************)
\* C5 (as claimed): pick_10ks returns at most `limit` filings, for every
\* input and every limit, limit = 0 included.  The loop tests the length
\* after appending, so with limit = 0 one filing is returned.
C5_AtMostLimit ==
    p_pc = "done" => Len(p_out) <= limit

\* C6: every returned filing has form exactly 10-K (10-K/A only with
\* include_amends), a filing date not before today - years * 365.25 days, a
\* non-empty accession number, and no two returned filings share an
\* accession number.
C6_Selected ==
    p_pc = "done" =>
        /\ \A i \in 1..Len(p_out) :
            /\ p_out[i].form = "10-K" \/ (include_amends /\ p_out[i].form = "10-K/A")
            /\ 100 * p_out[i].filing_date >= 0 - 36525 * years_lookback
            /\ p_out[i].accession \notin {"", " "}
        /\ \A i, j \in 1..Len(p_out) :
            p_out[i].accession = p_out[j].accession => i = j

\* C6 witness: two filings were returned, one of them an amendment, one dated
\* exactly at the cutoff, out of three rows of which one was rejected.
C6_Witness ==
    /\ p_pc = "done"
    /\ p_n = 3
    /\ Len(p_in) = 2
    /\ Len(p_out) = 2
    /\ years_lookback = 1
    /\ \E i \in 1..2 : p_out[i].form = "10-K/A"
    /\ \E i \in 1..2 : p_out[i].filing_date = -365

\* The filing of the sorted order comes before g: a later date first, the
\* input order among equal dates.
C7_Before(f, g) ==
    \/ f.filing_date > g.filing_date
    \/ (f.filing_date = g.filing_date /\ f.pos < g.pos)

\* C7: the result is in filing-date-descending order, filings of one date in
\* input order, and of the entries sharing an accession number the one
\* returned is the first of them in that order.
C7_Order ==
    p_pc = "done" =>
        /\ \A i, j \in 1..Len(p_out) : i < j => C7_Before(p_out[i], p_out[j])
        /\ \A i \in 1..Len(p_out) : \A k \in 1..Len(p_in) :
            (p_in[k].accession = p_out[i].accession /\ p_in[k] # p_out[i])
                => C7_Before(p_out[i], p_in[k])
        /\ \A i \in 1..Len(p_out) : \E k \in 1..Len(p_in) : p_in[k] = p_out[i]

\* C7 witness: two filings of one date were returned in input order, and an
\* accession number given twice was kept once, the entry kept being the later
\* of the two in the input.
C7_Witness ==
    /\ p_pc = "done"
    /\ Len(p_in) = 3
    /\ Len(p_out) = 2
    /\ p_out[1].filing_date = p_out[2].filing_date
    /\ p_out[1].pos < p_out[2].pos
    /\ \E k \in 1..3 :
        /\ p_in[k].accession = p_out[1].accession
        /\ p_in[k].pos < p_out[1].pos


(***************************************************************************)
(* Claims about the client                                                 *)
(***************************************************************************)
C2_Other4xx == {s \in Statuses : s >= 400 /\ s < 500 /\ s # 404 /\ s # 429}

\* C2 (as claimed): an attempt whose outcome is status 200, status 404 or any
\* other 4xx status except 429 ends the call: the response is returned (200,
\* 404) or the call raises, no backoff sleep follows and no further request is
\* made.  In the code a 200 over the byte cap and every other 4xx raise inside
\* the try block and are caught by the blanket except, which sleeps and retries.
C2_TerminalStatuses ==
    (resp.status \in {200, 404} \cup C2_Other4xx) => c_pc = "returned"

\* C3: one call of _get issues at most 7 requests; an attempt that ends in a
\* transport failure or in 429/500/502/503/504 is followed by a sleep of the
\* current backoff and then (if fewer than 7 attempts were made) a new attempt;
\* the sleeps are 1, then doubled each time, never more than 16; the call
\* raises once all 7 attempts have failed, and only then.
C3_BoundedRetries ==
    /\ nreq <= 7
    /\ Len(sleeps) <= 7
    /\ \A i \in 1..Len(sleeps) :
        /\ sleeps[i] <= 16
        /\ sleeps[i] = IF i = 1 THEN 1 ELSE Min(2 * sleeps[i - 1], 16)
    /\ (c_pc \in {"sleep_retry", "sleep_exc"}) =>
            /\ backoff = (IF sleeps = <<>> THEN 1 ELSE Min(2 * sleeps[Len(sleeps)], 16))
            /\ Len(sleeps) = nreq - 1
    /\ (resp.status \in RetryStatuses \cup {TransportFailure}) =>
            \/ c_pc \in {"sleep_retry", "sleep_exc"}
            \/ (c_pc = "raised" /\ nreq = 7)
    /\ c_pc \in {"wait", "get"} => (nreq < 7 /\ Len(sleeps) = nreq)
    /\ c_pc = "raised" <=> (nreq = 7 /\ Len(sleeps) = 7)
    /\ c_pc = "returned" =>
            /\ resp.status \notin RetryStatuses \cup {TransportFailure}
            /\ Len(sleeps) = nreq - 1

\* C3 witness: a call whose 7 attempts all failed has slept 1,2,4,8,16,16,16
\* and raised.
C3_Witness ==
    /\ c_pc = "raised"
    /\ nreq = 7
    /\ sleeps = <<1, 2, 4, 8, 16, 16, 16>>
    /\ resp.status \in RetryStatuses \cup {TransportFailure}

\* C4: every request attempt is issued right after RateLimiter.wait() has
\* returned, with _last holding the instant of that return, and two consecutive
\* request attempts of the client (retries and different calls alike) use
\* releases at least min_interval apart.
C4_MinInterval ==
    /\ c_pc = "get" => (released = clock /\ rl_last = clock)
    /\ c_pc \in {"returned", "sleep_retry", "sleep_exc"} => reqRelease = released
    /\ (prevReqRelease # None /\ reqRelease # None) =>
            reqRelease - prevReqRelease >= min_interval

\* C4 witness: a retry and a request of a second call were both held back by
\* the limiter: a second call's request released exactly min_interval after
\* the request before it, with a positive min_interval.
C4_Witness ==
    /\ min_interval > 0
    /\ calls = 2
    /\ nreq >= 1
    /\ c_pc = "returned"
    /\ prevReqRelease # None
    /\ reqRelease - prevReqRelease = min_interval

(***************************************************************************)
(* Claims about gather_filings                                             *)
(***************************************************************************)
\* The number of filings the claim gives a page: the minimum common length
\* of its parallel arrays, a missing reportDate array being tolerated.
C8_Count(recent) ==
    LET three == Min(Len(OrEmpty(recent.form)),
                     Min(Len(OrEmpty(recent.filingDate)),
                         Len(OrEmpty(recent.accessionNumber))))
    IN  IF recent.reportDate.present
        THEN Min(three, Len(recent.reportDate.items))
        ELSE three

\* C8 (as claimed): the object last given to add() yielded one filing per
\* index below the minimum common length of its arrays, in index order, after
\* the filings of the objects before it; a page without a reportDate array
\* still yields its filings, and a filing whose reportDate is missing or empty
\* has no report date.  In the code a missing reportDate array counts as an
\* empty one, the minimum is 0 and the page yields nothing.
C8_Gathered ==
    g_pc \in {"pages", "done"} =>
        /\ Len(g_rows) = g_from + C8_Count(g_cur)
        /\ \A i \in 1..(Len(g_rows) - g_from) :
            LET row == g_rows[g_from + i]
            IN  /\ row.page = g_page
                /\ row.form = i /\ row.filingDate = i /\ row.accessionNumber = i
                /\ row.reportDate =
                      IF g_cur.reportDate.present /\ g_cur.reportDate.items[i]
                      THEN <<i>> ELSE <<>>
        /\ \A i \in 1..g_from : g_rows[i].page < g_page

(***************************************************************************)
(* Claims about fetch_filing_summary                                       *)
(***************************************************************************)
\* The k-th response is one the claim says is accepted: status 200, and for
\* the two direct names a body containing '<FilingSummary'.
C9_Accepted(k) ==
    /\ f_resps[k].code = 200
    /\ (k <= 2 => f_resps[k].tag)
    /\ f_reqs[k] # "index.json"

\* The requests are made in the order FilingSummary.xml, filingsummary.xml,
\* index.json, the listing's entry, and the call returns at the first
\* accepted response and not before.
C9_OrderAndFirst ==
    /\ Len(f_reqs) <= 4
    /\ Len(f_resps) = Len(f_reqs)
    /\ Len(f_reqs) >= 1 => f_reqs[1] = "FilingSummary.xml"
    /\ Len(f_reqs) >= 2 => f_reqs[2] = "filingsummary.xml"
    /\ Len(f_reqs) >= 3 => f_reqs[3] = "index.json"
    /\ Len(f_reqs) >= 4 =>
            /\ Lower(f_reqs[4]) = "filingsummary.xml"
            /\ \E k \in 1..Len(f_items) :
                /\ f_items[k] = f_reqs[4]
                /\ \A j \in 1..(k - 1) : Lower(f_items[j]) # "filingsummary.xml"
    /\ \A k \in 1..(Len(f_reqs) - 1) : ~C9_Accepted(k)
    /\ f_pc = "returned" <=> (f_reqs # <<>> /\ C9_Accepted(Len(f_reqs)))

\* C9 (as claimed): the four paths are tried in order, the first accepted
\* response is returned without later requests, and the call fails only when
\* every one of the paths has been tried and none succeeded.  In the code an
\* exception of the client ends the call on whichever path it happens, and
\* the not-found errors of lines 290 and 300 are raised after three requests.
C9_FailsOnlyExhausted ==
    /\ C9_OrderAndFirst
    /\ f_pc \in {"raised", "not_found"} => Len(f_reqs) = 4

\* C9 (amended): the four paths are tried in order and the first accepted
\* response is returned without later requests; the call raises its own
\* not-found error only after both direct names and index.json have been
\* requested and none was accepted: index.json is not 200, or its listing has
\* no entry named filingsummary.xml in any case, or that entry was requested
\* and is not 200; an exception of the client (or of decoding index.json)
\* propagates at once, whatever paths are left.
C9_Summary ==
    /\ C9_OrderAndFirst
    /\ f_pc = "not_found" =>
            /\ Len(f_reqs) >= 3
            /\ \/ (Len(f_reqs) = 3 /\ f_resps[3].code # 200)
               \/ /\ Len(f_reqs) = 3
                  /\ \A k \in 1..Len(f_items) : Lower(f_items[k]) # "filingsummary.xml"
               \/ (Len(f_reqs) = 4 /\ f_resps[4].code # 200)
    /\ f_pc = "raised" =>
            \/ f_resps[Len(f_resps)].code = Raised
            \/ (Len(f_reqs) = 3 /\ f_resps[3].code = 200 /\ ~f_resps[3].json)

\* C9 witness: both direct names failed (a 404, then a 200 without the
\* tag), index.json listed the entry second under another case, and that
\* entry's 200 response was returned although it lacks the tag.
C9_Witness ==
    /\ f_pc = "returned"
    /\ Len(f_reqs) = 4
    /\ f_resps[1].code = 404
    /\ f_resps[2].code = 200 /\ ~f_resps[2].tag
    /\ f_reqs[4] = "FILINGSUMMARY.XML"
    /\ f_items = <<"R2.htm", "FILINGSUMMARY.XML">>
    /\ ~f_resps[4].tag

(***************************************************************************)
(* Claims about pick_report                                                *)
(***************************************************************************)
\* The entries of a list as a set.
C10_Set(list) == {list[i] : i \in 1..Len(list)}

\* The score as the claim states it: 10 for each must substring present, -8
\* for each avoid substring present, +1 for a filename ending in .htm or
\* .html, +1 for the report type 'sheet' or 'statement', all matched on the
\* lowercased short name + ' ' + long name.
C10_Score(r, kind) ==
    LET t == LowerText(r.short_name \o <<" ">> \o r.long_name)
        last == Lower(r.html_file[Len(r.html_file)])
    IN  10 * Cardinality({m \in C10_Set(must(kind)) : Contains(t, m)})
        - 8 * Cardinality({a \in C10_Set(avoid(kind)) : Contains(t, a)})
        + (IF last = ".htm" \/ last = ".html" THEN 1 ELSE 0)
        + (IF Lower(r.report_type) = "sheet" \/ Lower(r.report_type) = "statement"
           THEN 1 ELSE 0)

\* The claimed score of every report the model draws, per kind.
C10_Scores == [r \in SampleReports |-> [k \in Kinds |-> C10_Score(r, k)]]

C10_MaxScore ==
    CHOOSE x \in {C10_Scores[reports[i]][r_kind] : i \in 1..Len(reports)} :
        \A i \in 1..Len(reports) : C10_Scores[reports[i]][r_kind] <= x

\* C10: for BS, IS and CFS pick_report returns the first report, in
\* FilingSummary order, whose score is the maximum, and nothing when the list
\* is empty or the maximum is not positive.
C10_PickReport ==
    (r_pc = "done" /\ r_kind \in {"BS", "IS", "CFS"}) =>
        IF reports = <<>> \/ C10_MaxScore <= 0
        THEN r_pick = <<>>
        ELSE \E i \in 1..Len(reports) :
                /\ r_pick = <<reports[i]>>
                /\ C10_Scores[reports[i]][r_kind] = C10_MaxScore
                /\ \A j \in 1..(i - 1) : C10_Scores[reports[j]][r_kind] < C10_MaxScore

\* C10 witness: scenario S6: of 'Balance Sheet', 'Balance Sheet
\* (Parenthetical)' and 'Consolidated Statements of Operations' the pick for
\* IS is the third report, with score 12 against -6 for the first.
C10_Witness ==
    /\ r_pc = "done"
    /\ r_kind = "IS"
    /\ Len(reports) = 3
    /\ reports[1].short_name = <<"Balance", " ", "Sheet">>
    /\ reports[2].short_name = <<"Balance", " ", "Sheet", " ", "(", "Parenthetical", ")">>
    /\ r_pick = <<reports[3]>>
    /\ C10_Scores[reports[3]]["IS"] = 12
    /\ C10_Scores[reports[1]]["IS"] = 0 - 6

\* A report whose short or long name contains 'parenthetical'.
C11_Parenthetical(r) ==
    \/ Contains(LowerText(r.short_name), <<"parenthetical">>)
    \/ Contains(LowerText(r.long_name), <<"parenthetical">>)

\* C11 (as claimed): pick_report never returns a parenthetical report for BS,
\* IS or CFS, whatever the other candidates are.  In the code 'parenthetical'
\* is one avoid keyword worth -8: 'Balance Sheet (Parenthetical)' in R2.htm of
\* type Sheet scores 10 - 8 + 1 + 1 = 4 for BS and is returned when no other
\* report scores higher.
C11_NeverParenthetical ==
    (r_pc = "done" /\ r_kind \in {"BS", "IS", "CFS"} /\ r_pick # <<>>) =>
        ~C11_Parenthetical(r_pick[1])

(***************************************************************************)
(* Claims about main                                                       *)
(***************************************************************************)
RECURSIVE C1_Errors(_)
C1_Errors(m) == IF m = <<>> THEN 0 ELSE Len(Head(m).errors) + C1_Errors(Tail(m))

\* C1 (as claimed): a failure while handling one statement or one filing is
\* recorded as an error string in that filing's entry and never stops the
\* run, and the manifest is finally written with exactly one entry per
\* selected filing, in selector order.  In the code only the FilingSummary
\* step has a handler: a report fetch that raises, a refused write of the
\* report's file and an unparsable FilingSummary.xml end the run without a
\* manifest.
C1_FailuresRecorded ==
    /\ m_pc # "crashed"
    /\ m_failures =
          C1_Errors(manifest) + (IF m_pc \in {"statement"} THEN Len(entry.errors) ELSE 0)
    /\ m_pc = "done" =>
          /\ m_written
          /\ Len(manifest) = Len(m_filings)
          /\ \A i \in 1..Len(manifest) : manifest[i].accessionNumber = m_filings[i]

(***************************************************************************)
(* Claims about one statement: stitching, filtering, indent resolution     *)
(***************************************************************************)
\* C12: in every written statement artifact rows, indent and row_meta have
\* the same length, and every row has as many cells as the longest row.
C12_Rectangular ==
    s_pc = "written" =>
        /\ Len(s_tab.rows) = Len(s_out.indent)
        /\ Len(s_tab.rows) = Len(s_tab.meta)
        /\ \A i \in 1..Len(s_tab.rows) : Len(s_tab.rows[i]) = MaxLen(s_tab.rows)

\* C12 witness: the balance sheet followed by the continuation that has a
\* short row and a colspan: the continuation is stitched, two of its rows
\* and the scaffold row of the primary are filtered, seven rows are written.
C12_Witness ==
    /\ s_pc = "written"
    /\ s_page = <<PrimaryTable, RaggedTable>>
    /\ ~s_keep
    /\ Len(s_combined.parts) = 1
    /\ Len(s_stitched.rows) = 10
    /\ Len(s_tab.rows) = 7
    /\ Len(s_out.indent) = 7

\* C13 (as claimed): in every written statement artifact the level of row 0
\* is 0, in both modes.  In the code 'from_html' quantizes the first kept
\* row like any other: a first row carrying 24px gets level 2.
C13_FirstLevelZero ==
    (s_pc = "written" /\ s_out.indent # <<>>) => s_out.indent[1] = 0

\* The rows of the tables appended by the stitcher, in order.
RECURSIVE C14_Appended(_, _)
C14_Appended(page, parts) ==
    IF parts = <<>> THEN <<>>
    ELSE LET rows2 == extract_table_rows(page[Head(parts).idx]).rows
         IN  SubSeq(rows2, Head(parts).drop + 1, Len(rows2))
             \o C14_Appended(page, Tail(parts))

\* C14: continuation stitching keeps the primary's column count in every
\* row, and of the first three rows of an appended continuation none whose
\* normalized text equals the signature of the primary's row 0 is appended.
C14_Stitching ==
    (s_pc \in {"stitched", "filtered", "written"}) =>
        LET primary == extract_table_rows(s_page[s_combined.primary]).rows
            cols == table_profile(primary).col_count
        IN  /\ s_combined.rows = primary \o C14_Appended(s_page, s_combined.parts)
            /\ \A i \in 1..Len(s_combined.rows) : Len(s_combined.rows[i]) = cols
            /\ \A i \in 1..Len(s_stitched.rows) : Len(s_stitched.rows[i]) = cols
            /\ \A k \in 1..Len(s_combined.parts) :
                LET rows2 == extract_table_rows(s_page[s_combined.parts[k].idx]).rows
                IN  \A t \in 1..Min(3, Len(rows2)) :
                        norm_row(rows2[t]) = norm_row(primary[1])
                            => t <= s_combined.parts[k].drop

\* C14 witness: the page with five tables after the primary: three are
\* appended, the two that repeat the header (in another case) without it.
C14_Witness ==
    /\ s_pc = "stitched"
    /\ s_page = LongPage
    /\ s_combined.primary = 1
    /\ s_combined.parts = <<[idx |-> 2, drop |-> 1], [idx |-> 4, drop |-> 0],
                            [idx |-> 5, drop |-> 1]>>
    /\ Len(s_combined.rows) = 5 + 3 + 5 + 3

\* The scaffold flag as the claim states it.
C16_Flagged(t, i) ==
    \/ ScaffoldLabel(StripText(t.rows[i][1]))
    \/ AbstractConcept(t.meta[i].concepts)

\* The rows i.. of t that the claim keeps, with their flag.
RECURSIVE C16_Kept(_, _, _)
C16_Kept(t, i, keep) ==
    IF i > Len(t.rows) THEN <<>>
    ELSE (IF ~keep /\ C16_Flagged(t, i) /\ values_blank(t.rows[i])
          THEN <<>>
          ELSE <<[row |-> t.rows[i], px |-> t.px[i],
                  meta |-> [concepts |-> t.meta[i].concepts,
                            scaffold |-> C16_Flagged(t, i)]]>>)
         \o C16_Kept(t, i + 1, keep)

\* C16 (as claimed): filter_scaffolding removes a row exactly when
\* scaffold-keeping is disabled, the row is flagged scaffold and its value
\* columns are all blank; every other row is kept, in order, with its flag.
\* In the code a row whose label is blank is removed as well, whatever the
\* option and the flag (lines 621-623).
C16_FilterExact ==
    (s_pc \in {"filtered", "written"}) =>
        LET kept == C16_Kept(s_stitched, 1, s_keep)
        IN  /\ s_tab.rows = [i \in 1..Len(kept) |-> kept[i].row]
            /\ s_tab.px = [i \in 1..Len(kept) |-> kept[i].px]
            /\ s_tab.meta = [i \in 1..Len(kept) |-> kept[i].meta]

\* round(px / 12) as Python computes it: the nearest integer, the even one
\* of the two when px / 12 lies halfway.
C19_Round(px) ==
    CHOOSE n \in 0..(px \div 12 + 1) :
        /\ 2 * (12 * n - px) <= 12
        /\ 2 * (px - 12 * n) <= 12
        /\ (2 * (12 * n - px) = 12 \/ 2 * (px - 12 * n) = 12) => n % 2 = 0

\* C19: the artifact is tagged 'inferred' and carries the inferencer's
\* levels exactly when every pixel indent of the kept rows is 0; otherwise
\* it is tagged 'from_html' and each level is round(px / 12) of the row's
\* pixel indent; every level is a non-negative integer.
C19_Resolver ==
    s_pc = "written" =>
        /\ s_out.mode \in {"inferred", "from_html"}
        /\ s_out.mode = "inferred" <=> (\A i \in 1..Len(s_tab.px) : s_tab.px[i] = 0)
        /\ s_out.mode = "inferred" => s_out.indent = infer_indent_levels(s_tab.rows, s_key)
        /\ s_out.mode = "from_html" =>
                /\ Len(s_out.indent) = Len(s_tab.px)
                /\ \A i \in 1..Len(s_tab.px) : s_out.indent[i] = C19_Round(s_tab.px[i])
        /\ \A i \in 1..Len(s_out.indent) : s_out.indent[i] \in Nat

\* C19 witness: the table with the two-line header: the last row carries
\* 18px, halfway between levels 1 and 2, and gets level 2.
C19_Witness ==
    /\ s_pc = "written"
    /\ s_page = <<TwoLineTable>>
    /\ s_tab.px = <<0, 0, 18>>
    /\ s_out = [indent |-> <<0, 0, 2>>, mode |-> "from_html"]

\* The rows among the first three of a continuation whose normalized text
\* equals the signature of the primary's row 0.
C25_Repeats(rows2, head_sig) ==
    {t \in 1..Min(3, Len(rows2)) : norm_row(rows2[t]) = head_sig}

RECURSIVE C25_Sum(_, _)
C25_Sum(f, n) == IF n = 0 THEN 0 ELSE f[n] + C25_Sum(f, n - 1)

\* C25 (as claimed): of an appended continuation only rows among its first
\* three whose normalized text equals the signature of the primary's row 0
\* are removed, every other row is appended in order, and the stitched row
\* count is the primary's plus each continuation's minus its repeated header
\* rows.  In the code the rows up to the last repeat are removed, a row
\* above it that repeats nothing included (lines 603-607).
C25_OnlyRepeatsDropped ==
    (s_pc \in {"stitched", "filtered", "written"} /\ s_combined.parts # <<>>) =>
        LET primary == extract_table_rows(s_page[s_combined.primary]).rows
            head_sig == norm_row(primary[1])
            parts == s_combined.parts
            rowsOf == [k \in 1..Len(parts) |-> extract_table_rows(s_page[parts[k].idx]).rows]
            kept == [k \in 1..Len(parts) |->
                        Len(rowsOf[k]) - Cardinality(C25_Repeats(rowsOf[k], head_sig))]
        IN  /\ \A k \in 1..Len(parts) :
                    \A t \in 1..parts[k].drop : t \in C25_Repeats(rowsOf[k], head_sig)
            /\ Len(s_combined.rows) = Len(primary) + C25_Sum(kept, Len(parts))

(***************************************************************************)
(* Claims about merge_multiline_headers                                    *)
(***************************************************************************)
\* C15 (as claimed): merge_multiline_headers is idempotent: applied to its
\* own output it returns the same rows and the same indent vector.  The
\* code scans rows[:10] only: of eleven leading header rows the first ten
\* are merged into one, and the second application merges that row with
\* the eleventh.
C15_Idempotent ==
    h_n = 2 => (h_tab.rows = h_once.rows /\ h_tab.px = h_once.px)

(***************************************************************************)
(* Claims about infer_indent_levels                                        *)
(***************************************************************************)
\* Row k (from 1) is a header with blank values whose label Test matches.
C17_Header(k, Test(_)) ==
    values_blank(i_rows[k]) /\ Test(StripText(i_rows[k][1]))

\* C17 (as claimed): on CFS a row gets level 3 only if, since the last
\* major-section header, a blank-values 'Adjustments' header has been seen
\* and after it a blank-values 'Changes in' header (in_adjust and in_changes
\* both true).  In the code a 'Changes in' header sets in_changes whether or
\* not in_adjust is set, and in_changes alone gives level 3.
C17_Level3InContext ==
    (i_n >= 1 /\ Upper(i_stmt) = "CFS" /\ i_levels[i_n] = 3) =>
        /\ i_ctx.in_adjust /\ i_ctx.in_changes
        /\ \E a \in 1..i_n : \E c \in (a + 1)..i_n :
            /\ C17_Header(a, sub_adjust)
            /\ C17_Header(c, sub_changes)
            /\ \A m \in a..i_n : ~C17_Header(m, major_cfs)

\* C18 (as claimed): scenario S4: the six rows 'Operating activities:'
\* (blank), 'Net income', 'Adjustments to reconcile' (blank),
\* 'Depreciation', 'Changes in operating assets and liabilities:' (blank),
\* 'Accounts receivable' of a CFS table get the levels [0,0,1,1,2,3].  The
\* code gives every row with values at least level 1: [0,1,1,2,2,3].
C18_ScenarioS4 ==
    (i_rows = S4Rows /\ Upper(i_stmt) = "CFS" /\ i_n = Len(S4Rows)) =>
        i_levels = <<0, 0, 1, 1, 2, 3>>

\* The header tests as the claim words them, on a stripped label.
C24_Major(label) ==
    /\ Len(label) >= 3
    /\ Lower(label[1]) \in {"operating", "investing", "financing"}
    /\ Lower(label[Len(label)]) = "activities:"
    /\ \A j \in 2..(Len(label) - 1) : label[j] \in Blanks
C24_Adjustments(label) == label # <<>> /\ Lower(label[1]) = "adjustments"
C24_ChangesIn(label) ==
    Len(label) >= 3 /\ <<Lower(label[1]), label[2], Lower(label[3])>> = <<"changes", " ", "in">>

\* C24: on CFS every iteration of infer_indent_levels is a step of the
\* specification's state machine: row 0 gets level 0 and changes no flag; a
\* blank-values row that is a major section header sets in_major, clears
\* in_adjust and in_changes and gets 0; one starting with 'adjustments' sets
\* in_adjust, clears in_changes and gets 1; one starting with 'changes in'
\* sets in_changes and gets 2 if in_adjust else 1; any other blank-values
\* row gets 2 if in_changes, else 1 if in_adjust, else 0; a row with values
\* gets 3 if in_changes, else 2 if in_adjust, else 1 and changes no flag.
C24_StateMachine ==
    [][(Upper(i_stmt) = "CFS" /\ i_n' = i_n + 1) =>
        LET r == i_rows[i_n + 1]
            label == StripText(r[1])
            blank == \A j \in 2..Len(r) : StripText(r[j]) = <<>>
            level == i_levels'[i_n + 1]
        IN  /\ Len(i_levels') = i_n + 1
            /\ SubSeq(i_levels', 1, i_n) = i_levels
            /\ IF i_n = 0 THEN level = 0 /\ i_ctx' = i_ctx
               ELSE IF ~blank
               THEN /\ level = (IF i_ctx.in_changes THEN 3 ELSE IF i_ctx.in_adjust THEN 2 ELSE 1)
                    /\ i_ctx' = i_ctx
               ELSE IF C24_Major(label)
               THEN /\ level = 0
                    /\ i_ctx' = [in_major |-> TRUE, in_adjust |-> FALSE, in_changes |-> FALSE]
               ELSE IF C24_Adjustments(label)
               THEN /\ level = 1
                    /\ i_ctx' = [in_major |-> i_ctx.in_major, in_adjust |-> TRUE,
                                 in_changes |-> FALSE]
               ELSE IF C24_ChangesIn(label)
               THEN /\ level = (IF i_ctx.in_adjust THEN 2 ELSE 1)
                    /\ i_ctx' = [in_major |-> i_ctx.in_major, in_adjust |-> i_ctx.in_adjust,
                                 in_changes |-> TRUE]
               ELSE /\ level = (IF i_ctx.in_changes THEN 2 ELSE IF i_ctx.in_adjust THEN 1 ELSE 0)
                    /\ i_ctx' = i_ctx]_vars

\* C24 witness: a cash-flow statement read to its end, with a major header,
\* then Adjustments, then Changes in, then a row with values at level 3.
C24_Witness ==
    /\ Upper(i_stmt) = "CFS"
    /\ i_rows = <<DataRow, MajorRow, AdjustRow, ChangesRow>>
    /\ i_n = 4
    /\ i_ctx = [in_major |-> TRUE, in_adjust |-> TRUE, in_changes |-> TRUE]
    /\ i_levels = <<0, 0, 1, 2>>

\* C26 (as claimed): the inferred level never rises by more than 1 from one
\* row to the next, for every statement kind and row sequence.  In the code
\* a 'Changes in' header outside Adjustments gets level 1 and the row with
\* values below it level 3.
C26_RisesByOne ==
    \A k \in 2..Len(i_levels) :
        i_levels[k] > i_levels[k - 1] => i_levels[k] = i_levels[k - 1] + 1

(***************************************************************************)
(* Claims about the files main creates                                     *)
(***************************************************************************)
\* C20 (as claimed): every file or directory the run creates resolves to a
\* path equal to or below <out>/<cik10>, for every accession number and
\* report filename the remote index delivers.  In the code the filing's
\* directory is out_root / acc, made and written under without safe_join
\* against out_root: an accession '../../etc' puts the directory, its
\* FilingSummary.xml, its report and its CSV and JSON under /etc.
C20_Confined ==
    \A p \in w_fs \ InitialFiles :
        p = Resolve(out_root) \/ IsParent(Resolve(out_root), p)

(***************************************************************************)
(* Claims about norm_cik and is_numericish                                 *)
(***************************************************************************)
\* C21 (as claimed): norm_cik returns a string of exactly 10 decimal digits
\* for every input that contains a digit, and rejects the inputs without
\* one.  In the code zfill pads and never cuts: an input with more than 10
\* digits comes back with all of them.
C21_TenDigits ==
    /\ k_pc = "returned" =>
            /\ Len(k_out) = 10
            /\ \A i \in 1..Len(k_out) : IsDigit(k_out[i])
    /\ k_pc \in {"returned", "exit"} =>
            (k_pc = "returned" <=> \E i \in 1..Len(k_cik) : IsDigit(k_cik[i]))

\* C22 (as claimed): is_numericish accepts each cell the specification lists
\* as accepted and rejects each it lists as rejected.  In the code '2024'
\* matches NUMISH_RE like any other run of digits and is accepted.
C22_Listed ==
    n_pc = "returned" =>
        /\ n_s \in ListedAccepted => n_out
        /\ n_s \in ListedRejected => ~n_out

(***************************************************************************)
(* Claims about _compute_paths                                             *)
(***************************************************************************)
\* The path without its last component: the characters before the last dot.
C23_Parent(path) ==
    LET dots == {i \in 1..Len(path) : path[i] = "."}
    IN  IF dots = {} THEN <<>>
        ELSE SubSeq(path, 1, (CHOOSE i \in dots : \A j \in dots : j <= i) - 1)

\* C23 (as claimed): for every row i at level L, its path is a sibling (same
\* parent path) or a direct child of the path of the nearest preceding row
\* whose level is at most L.  In the code a row two levels below the row
\* before it gets a path through a counter 0 that is no row's path: levels
\* 0, 2 give '1' and '1.0.1'.
C23_WellFormedTree ==
    \A i \in 1..Len(v_paths) :
        LET before == {j \in 1..(i - 1) : v_levels[j] <= v_levels[i]}
        IN  before # {} =>
                LET j == CHOOSE j \in before : \A m \in before : m <= j
                IN  \/ C23_Parent(v_paths[i]) = C23_Parent(v_paths[j])
                    \/ C23_Parent(v_paths[i]) = v_paths[j]

C27_StartsWith(path, prefix) ==
    Len(prefix) <= Len(path) /\ SubSeq(path, 1, Len(prefix)) = prefix

\* The statement of C27 for the rows computed so far, lv[i] being what is
\* taken as the level of row i.
C27_Statement(lv) ==
    LET n == Len(v_paths)
    IN  /\ \A i, j \in 1..n : i # j => v_paths[i] # v_paths[j]
        /\ \A i \in 1..n :
              Cardinality({c \in 1..Len(v_paths[i]) : v_paths[i][c] = "."}) = Clamp(v_levels[i])
        /\ \A i \in 1..n :
              {j \in 1..n : C27_StartsWith(v_paths[j], v_paths[i] \o <<".">>)}
                = {j \in (i + 1)..n : \A m \in (i + 1)..j : lv[m] > lv[i]}

\* C27 (amended): the rows get pairwise distinct dotted paths, the path of a
\* row at level L, negative levels clamped to 0, has L + 1 components, and
\* the rows whose path starts with a row's path followed by '.' are exactly
\* the maximal run of rows immediately after it whose clamped level is
\* strictly greater than its clamped level.
C27_Paths == C27_Statement([i \in 1..Len(v_paths) |-> Clamp(v_levels[i])])

\* C27 witness: levels 0, 1, 2, 0: the rows below the first are the second
\* and the third, and the fourth starts a new root.
C27_Witness ==
    /\ v_levels = <<0, 1, 2, 0>>
    /\ v_n = 4
    /\ v_paths = << <<"1">>, <<"1", ".", "1">>, <<"1", ".", "1", ".", "1">>, <<"2">> >>

\* C27 (as claimed): the same with the levels as given: the rows under a
\* row are the run of rows after it with a strictly greater level.  With
\* levels -1, 0 the second row has a greater level than the first and is
\* not under it: the paths are '1' and '2'.
C27_GivenLevels == C27_Statement(v_levels)

====
